---- MODULE Spec2Model ----
(***************************************************************************)
(* Rove context aggregation pipeline: ContextBuilder.build (artifact,      *)
(* ContextFileRecord, fetch history) and SearchAgent.search.               *)
(*                                                                         *)
(* Text is modelled at the granularity the code's regular expressions      *)
(* observe: the artifact is a sequence of lines, a url is a record of the  *)
(* parts the url patterns distinguish, item text is the features the       *)
(* patterns test.  Blank lines are left out.                               *)
(***************************************************************************)
EXTENDS Integers, Sequences, FiniteSets, TLC

\* ------------------------------------------------------------------------
\* Bounds
\* ------------------------------------------------------------------------
\* number of build calls in one behaviour
MaxBuilds == 2
\* longest item list offered to one build call
MaxOffer == 4
\* number of indices an AI grouping answer may omit or repeat
MaxGroupAnomalies == 1

\* ------------------------------------------------------------------------
\* ContextItem values.  An item is named by a small integer; its fields are
\* the shapes the plugins produce.
\* ------------------------------------------------------------------------
\* 1 jira ticket TB-1; 2 jira comment on TB-1; 3 github pr 7, TB-1 in its
\* title; 4 slack message; 5 a second jira comment on TB-1 carrying the url
\* of the first (both comments came without an id), long, with a "---" line
\* in its text; 6 slack message fetched by id (url ""), its text names TB-1;
\* 7 github pr 8; 8 github issue, TB-1 in its body past the first 500
\* characters; 9 github commit; 10 github pr 10, TB-1 at the start of its
\* body; 11 slack message naming TB-1; 12, 13 slack messages; 14 jira ticket
\* TA-2; 15 jira comment on TA-2; 16, 17 jira tickets TA-3, TA-4; 101, 102,
\* ... github prs and 201, 202, ... github commits that name no ticket, as a
\* search of a busy repository returns them
BuildItems == 1..6

BulkPrs(n) == [k \in 1..n |-> 100 + k]
BulkCommits(n) == [k \in 1..n |-> 200 + k]

Source(i) ==
  CASE i \in {1, 2, 5, 14, 15, 16, 17} -> "jira"
    [] i \in {3, 7, 8, 9, 10} -> "github"
    [] i > 100 -> "github"
    [] OTHER -> "slack"

ItemType(i) ==
  CASE i \in {1, 14, 16, 17} -> "ticket"
    [] i \in {2, 5, 15} -> "comment"
    [] i \in {3, 7, 10} -> "pr"
    [] i = 8 -> "issue"
    [] i = 9 -> "commit"
    [] i > 100 /\ i <= 200 -> "pr"
    [] i > 200 -> "commit"
    [] OTHER -> "message"

\* a url: kind "browse" is <site>/browse/<KEY>[?focusedCommentId=<frag>],
\* "pull" is https://github.com/<o>/<r>/pull/<id>[#<frag>], "link" is any
\* other http(s) url, "empty" is the empty string
MkUrl(k, n, f) == [kind |-> k, id |-> n, frag |-> f]
EmptyUrl == MkUrl("empty", 0, 0)

Url(i) ==
  CASE i = 1 -> MkUrl("browse", 1, 0)
    [] i \in {2, 5} -> MkUrl("browse", 1, 1)
    [] i = 3 -> MkUrl("pull", 7, 0)
    [] i = 6 -> EmptyUrl
    [] i = 7 -> MkUrl("pull", 8, 0)
    [] i = 10 -> MkUrl("pull", 10, 0)
    [] i = 14 -> MkUrl("browse", 2, 0)
    [] i = 15 -> MkUrl("browse", 2, 1)
    [] i = 16 -> MkUrl("browse", 3, 0)
    [] i = 17 -> MkUrl("browse", 4, 0)
    [] i > 100 /\ i <= 200 -> MkUrl("pull", i, 0)
    [] OTHER -> MkUrl("link", i, 0)

\* ticket ids: 1..4 are the Jira keys TB-1, TA-2, TA-3, TA-4; 9 is the
\* Slack message id C01:17.5
JiraKey(i) ==
  CASE i \in {1, 2, 5} -> 1
    [] i \in {14, 15} -> 2
    [] i = 16 -> 3
    [] i = 17 -> 4
    [] OTHER -> 0

\* the ticket key a title starts with, before its first ":" (0: the title
\* has no ":")
TitleKey(i) == IF ItemType(i) = "ticket" THEN JiraKey(i) ELSE 0

\* metadata.get("ticket_id", "") (0: absent)
MetaTicketId(i) == JiraKey(i)

\* len(content.strip()) > 200
LongContent(i) == i \in {1, 5, 8}

\* content has a line that is exactly "---"
HasRuleLine(i) == i = 5

\* ------------------------------------------------------------------------
\* Sequence helpers
\* ------------------------------------------------------------------------
Range(s) == {s[k] : k \in DOMAIN s}

RECURSIVE SeqOfSet(_)
\* ascending list of a finite set of integers (sorted(...))
SeqOfSet(S) ==
  IF S = {} THEN <<>>
  ELSE LET m == CHOOSE x \in S : \A y \in S : x <= y
       IN <<m>> \o SeqOfSet(S \ {m})

RECURSIVE Flatten(_)
Flatten(ss) == IF ss = <<>> THEN <<>> ELSE Head(ss) \o Flatten(Tail(ss))

SetMax(S) == CHOOSE x \in S : \A y \in S : y <= x

\* ------------------------------------------------------------------------
\* The artifact: a sequence of lines
\* ------------------------------------------------------------------------
Line(k, i, n, nm, u) == [k |-> k, it |-> i, num |-> n, name |-> nm, url |-> u]

\* "# Context: <primary title>"
LTitle(i) == Line("h1", i, 0, "", EmptyUrl)
\* "## <topic>"
LTopic(t) == Line("topic", 0, 0, t, EmptyUrl)
\* "### New additions to <topic>"
LNewAdd(t) == Line("newadd", 0, 0, t, EmptyUrl)
\* "### <item title> [<n>]"
LItem(i, n) == Line("item", i, n, "", EmptyUrl)
\* "> <content line>"
LQuote(i) == Line("quote", i, 0, "", EmptyUrl)
\* a content line rendered as it is
LRaw(i) == Line("raw", i, 0, "", EmptyUrl)
\* "---": the footer separator, and any content line that is the same text
LRule == Line("rule", 0, 0, "", EmptyUrl)
\* "- *<author> via <SOURCE>, <date>*"
LAttr(i) == Line("attr", i, 0, "", EmptyUrl)
\* "## Sources Consulted" and the two table header rows
LSources == Line("srchdr", 0, 0, "", EmptyUrl)
\* "| <SOURCE> | <count> | <today> |"
LRow(s, c) == Line("row", 0, c, s, EmptyUrl)
\* "## References"
LRefHdr == Line("refhdr", 0, 0, "", EmptyUrl)
\* [<n>]: <url> "<source>: <title>"
LRef(n, u, i) == Line("ref", i, n, "", u)

\* the artifact of a ticket that has none on disk
NoFile == <<Line("nofile", 0, 0, "", EmptyUrl)>>

\* ------------------------------------------------------------------------
\* _parse_existing_urls / _item_in_existing
\* ------------------------------------------------------------------------
\* https?://[^\s"]+ matches the url from its start
IsHttp(u) == u.kind \in {"browse", "pull", "link"}

\* what https?://.../browse/[A-Z]+-\d+ and https?://github.com/.../pull/\d+
\* match inside a url: the url cut after the key or the number
CutAtKey(u) == MkUrl(u.kind, u.id, 0)

\* "__ticket__<ID>"
TicketMarker(key) == MkUrl("marker", key, 0)

RefLines(content) == {l \in Range(content) : l.k = "ref"}

ParseExistingUrls(content) ==
  LET refs == {l.url : l \in {r \in RefLines(content) : IsHttp(r.url)}}
      jira == {CutAtKey(l.url) : l \in {r \in RefLines(content) : r.url.kind = "browse"}}
      github == {CutAtKey(l.url) : l \in {r \in RefLines(content) : r.url.kind = "pull"}}
      heads == {TicketMarker(TitleKey(l.it)) :
                  l \in {h \in Range(content) : h.k = "item" /\ TitleKey(h.it) # 0}}
  IN refs \cup jira \cup github \cup heads

ItemInExisting(i, existing_urls) ==
  \/ Url(i) \in existing_urls
  \/ /\ ItemType(i) = "ticket"
     /\ MetaTicketId(i) # 0
     /\ TicketMarker(MetaTicketId(i)) \in existing_urls

\* ------------------------------------------------------------------------
\* deduplicate_items
\* ------------------------------------------------------------------------
RECURSIVE UrlPass(_, _)
\* first pass: keep the first item of every url
UrlPass(items, seen) ==
  IF items = <<>> THEN <<>>
  ELSE IF Url(Head(items)) \in seen THEN UrlPass(Tail(items), seen)
       ELSE <<Head(items)>> \o UrlPass(Tail(items), seen \cup {Url(Head(items))})

\* the number of items up to which no AI deduplication is asked for
DedupSmall == 3

\* the AI deduplication call is made
DedupAsksAi(items) == Len(items) > 1 /\ Len(UrlPass(items, {})) > DedupSmall

\* keep_indices without the line that always adds index 0
KeepIndicesAsAnswered(answer, n) == {x \in answer : 0 <= x /\ x < n}

\* keep_indices: the parsed indices in range, and always index 0
KeepIndices(answer, n) == {x \in answer : 0 <= x /\ x < n} \cup {0}

\* the bug of failing open: the url-deduplicated input comes back when the
\* AI call raises
DeduplicateItemsFailOpen(items, ai) ==
  IF Len(items) <= 1 THEN items
  ELSE LET unique_items == UrlPass(items, {})
       IN IF Len(unique_items) <= DedupSmall THEN unique_items
          ELSE IF ~ai.ok THEN unique_items
          ELSE LET keep == SeqOfSet(KeepIndices(ai.idx, Len(unique_items)))
               IN [k \in 1..Len(keep) |-> unique_items[keep[k] + 1]]

\* an AI answer is [ok |-> FALSE] (the call raised) or the integers parsed
\* from the text it returned
DeduplicateItems(items, ai) ==
  IF Len(items) <= 1 THEN items
  ELSE LET unique_items == UrlPass(items, {})
       IN IF Len(unique_items) <= DedupSmall THEN unique_items
          ELSE IF ~ai.ok THEN <<>>
          ELSE LET keep == SeqOfSet(KeepIndices(ai.idx, Len(unique_items)))
               IN [k \in 1..Len(keep) |-> unique_items[keep[k] + 1]]

\* ------------------------------------------------------------------------
\* _group_by_topic.  A grouping is the dict in insertion order: a sequence
\* of [topic, items].
\* ------------------------------------------------------------------------
TypeToTopic(item_type) ==
  CASE item_type = "ticket" -> "Primary Ticket"
    [] item_type = "comment" -> "Discussion"
    [] item_type = "message" -> "Related Discussions"
    [] item_type = "pr" -> "Related Code"
    [] item_type = "issue" -> "Related Issues"
    [] OTHER -> "Other Context"

RECURSIVE AddToGroup(_, _, _)
\* groups[topic].append(item), creating the group at the end when new
AddToGroup(groups, topic, i) ==
  IF groups = <<>> THEN <<[topic |-> topic, items |-> <<i>>]>>
  ELSE IF Head(groups).topic = topic
       THEN <<[topic |-> topic, items |-> Append(Head(groups).items, i)]>> \o Tail(groups)
       ELSE <<Head(groups)>> \o AddToGroup(Tail(groups), topic, i)

RECURSIVE GroupByType(_, _)
GroupByType(items, groups) ==
  IF items = <<>> THEN groups
  ELSE GroupByType(Tail(items), AddToGroup(groups, TypeToTopic(ItemType(Head(items))), Head(items)))

\* the number of items up to which grouping is by type, without the AI
GroupSmall == 3

GroupAsksAi(items) == Len(items) > GroupSmall

\* [items[i] for i in indices if i < len(items)]; a negative index counts
\* from the end of the list
PickIndices(items, indices) ==
  LET ok == SelectSeq(indices, LAMBDA x : x < Len(items))
  IN [k \in 1..Len(ok) |-> IF ok[k] >= 0 THEN items[ok[k] + 1] ELSE items[Len(items) + ok[k] + 1]]

\* an AI answer is [ok |-> FALSE] (the call raised, no JSON object in the
\* text, or JSON that does not parse) or the parsed object: a sequence of
\* [topic, idx], idx a list of integers not below -len(items)
GroupByTopic(items, ai) ==
  IF Len(items) <= GroupSmall THEN GroupByType(items, <<>>)
  ELSE IF ai.ok
       THEN [g \in 1..Len(ai.groups) |->
               [topic |-> ai.groups[g].topic, items |-> PickIndices(items, ai.groups[g].idx)]]
       ELSE GroupByType(items, <<>>)

\* ------------------------------------------------------------------------
\* rendering shared by _generate_markdown and _append_to_existing
\* ------------------------------------------------------------------------
\* the content of an item: as it is for a long ticket or comment, else
\* every line blockquoted
ContentLines(i) ==
  IF ItemType(i) \in {"ticket", "comment"} /\ LongContent(i)
  THEN IF HasRuleLine(i) THEN <<LRaw(i), LRule, LRaw(i)>> ELSE <<LRaw(i)>>
  ELSE <<LQuote(i)>>

\* the layout in which the section of a ticket carries no reference number
ItemSectionTicketUnnumbered(i, ref_num) ==
  <<LItem(i, IF ItemType(i) = "ticket" THEN 0 ELSE ref_num)>> \o ContentLines(i) \o <<LAttr(i)>>

\* header with the reference number, content, attribution
ItemSection(i, ref_num) == <<LItem(i, ref_num)>> \o ContentLines(i) \o <<LAttr(i)>>

\* the items of a grouping in rendering order
GroupedItems(grouped) == Flatten([g \in 1..Len(grouped) |-> grouped[g].items])

\* number of items rendered before group g
Before(grouped, g) == Len(GroupedItems(SubSeq(grouped, 1, g - 1)))

\* the sections of group g, numbered from first_ref on through the groups
GroupSections(grouped, g, first_ref) ==
  Flatten([k \in 1..Len(grouped[g].items) |->
             ItemSection(grouped[g].items[k], first_ref + Before(grouped, g) + k - 1)])

\* the reference lines of a grouping, numbered from first_ref on
ReferenceLines(grouped, first_ref) ==
  LET its == GroupedItems(grouped)
  IN [k \in 1..Len(its) |-> LRef(first_ref + k - 1, Url(its[k]), its[k])]

\* sorted(source_counts.items())
SourceOrder == <<"github", "jira", "slack">>

CountOf(items, s) == Cardinality({k \in DOMAIN items : Source(items[k]) = s})

\* the rows of a source-count table, one per source with a count
TableRows(counts) ==
  LET present == SelectSeq(SourceOrder, LAMBDA s : counts[s] > 0)
  IN [k \in 1..Len(present) |-> LRow(present[k], counts[present[k]])]

\* ------------------------------------------------------------------------
\* _generate_markdown
\* ------------------------------------------------------------------------
\* the ticket every build and search of a behaviour is for (TB-1)
Ticket == 1

\* the first item of type ticket whose title contains the ticket id (0: none,
\* the title is the ticket id itself)
PrimaryTitle(ticket_id, items) ==
  LET hits == {k \in DOMAIN items : ItemType(items[k]) = "ticket" /\ TitleKey(items[k]) = ticket_id}
  IN IF hits = {} THEN 0 ELSE items[CHOOSE k \in hits : \A j \in hits : k <= j]

\* the number the first reference of a new document gets
FirstRef == 1

GenerateMarkdown(ticket_id, items, grouped) ==
  <<LTitle(PrimaryTitle(ticket_id, items))>>
  \o Flatten([g \in 1..Len(grouped) |->
                <<LTopic(grouped[g].topic)>> \o GroupSections(grouped, g, FirstRef)])
  \o <<LRule, LSources>>
  \o TableRows([s \in Range(SourceOrder) |-> CountOf(items, s)])
  \o (IF GroupedItems(grouped) # <<>>
      THEN <<LRefHdr>> \o ReferenceLines(grouped, FirstRef)
      ELSE <<>>)

\* ------------------------------------------------------------------------
\* _append_to_existing
\* ------------------------------------------------------------------------
\* every number matched by \[(\d+)\]: in the text
ExistingRefs(content) == {l.num : l \in RefLines(content)}

\* the bug of continuing at the highest existing number itself
NextRefNumReusesMax(content) ==
  IF ExistingRefs(content) # {} THEN SetMax(ExistingRefs(content)) ELSE 1

NextRefNum(content) ==
  IF ExistingRefs(content) # {} THEN SetMax(ExistingRefs(content)) + 1 ELSE 1

\* position of the first "\n---\n" (0: none)
SeparatorPos(content) ==
  LET hits == {k \in DOMAIN content : content[k].k = "rule"}
  IN IF hits = {} THEN 0 ELSE CHOOSE k \in hits : \A j \in hits : k <= j

MainContent(content) ==
  IF SeparatorPos(content) = 0 THEN content
  ELSE SubSeq(content, 1, SeparatorPos(content) - 1)

Footer(content) ==
  IF SeparatorPos(content) = 0 THEN <<>>
  ELSE SubSeq(content, SeparatorPos(content), Len(content))

\* f"## {topic}" in main_content
SectionExists(main_content, topic) ==
  \E k \in DOMAIN main_content : main_content[k].k = "topic" /\ main_content[k].name = topic

NewLines(main_content, grouped, next_ref_num) ==
  Flatten([g \in 1..Len(grouped) |->
             <<IF SectionExists(main_content, grouped[g].topic)
               THEN LNewAdd(grouped[g].topic)
               ELSE LTopic(grouped[g].topic)>>
             \o GroupSections(grouped, g, next_ref_num)])

\* the counts \| (\w+) \| (\d+) \| finds in the footer (0: no row)
ParsedCounts(footer) ==
  [s \in Range(SourceOrder) |->
     LET rows == {k \in DOMAIN footer : footer[k].k = "row" /\ footer[k].name = s}
     IN IF rows = {} THEN 0 ELSE footer[CHOOSE k \in rows : \A j \in rows : j <= k].num]

\* what ## References\n\n(.*) captures in the footer: all that follows the
\* first References heading (<<>> with found FALSE when there is none)
OldReferences(footer) ==
  LET hits == {k \in DOMAIN footer : footer[k].k = "refhdr"}
  IN IF hits = {} THEN [found |-> FALSE, lines |-> <<>>]
     ELSE [found |-> TRUE,
           lines |-> SubSeq(footer, (CHOOSE k \in hits : \A j \in hits : k <= j) + 1, Len(footer))]

AppendToExisting(existing_content, new_items, grouped) ==
  LET next_ref_num == NextRefNum(existing_content)
      main_content == MainContent(existing_content)
      footer == Footer(existing_content)
      result == main_content \o NewLines(main_content, grouped, next_ref_num)
      old == OldReferences(footer)
      new_references == ReferenceLines(grouped, next_ref_num)
      counts == [s \in Range(SourceOrder) |-> ParsedCounts(footer)[s] + CountOf(new_items, s)]
  IN IF footer = <<>> THEN result
     ELSE result
          \o <<LRule, LSources>> \o TableRows(counts)
          \o (IF old.found THEN <<LRefHdr>> \o old.lines ELSE <<>>)
          \o (IF new_references # <<>>
              THEN (IF old.found THEN <<>> ELSE <<LRefHdr>>) \o new_references
              ELSE <<>>)

\* ------------------------------------------------------------------------
\* ContextBuilder._extract_keywords and the filename
\* ------------------------------------------------------------------------
\* a keyword is a small integer: 91.. are words of an AI answer, 100 + i is
\* the word the fallback takes from item i
AiWords == <<91, 92, 93, 94, 95>>

Take(s, n) == SubSeq(s, 1, IF Len(s) < n THEN Len(s) ELSE n)

\* the AI answer cleaned and cut to 5, or on failure words of the first 5
\* items, cut to 5
BuilderKeywords(items, ai) ==
  IF ai.ok THEN Take(ai.words, 5)
  ELSE Take([k \in 1..Len(Take(items, 5)) |-> 100 + items[k]], 5)

\* f"{ticket_id}_{'_'.join(keywords[:4])}.md"
Filename(ticket_id, keywords) == [ticket |-> ticket_id, slug |-> Take(keywords, 4)]

\* ------------------------------------------------------------------------
\* State
\* ------------------------------------------------------------------------
VARIABLES
  files,          \* output directory: filename -> artifact lines
  context_files,  \* table context_files: set of ContextFileRecord
  fetch_history,  \* table fetch_history: set of [context_file_id, source, last_fetched]
  now,            \* clock: the number of build calls made
  call            \* the last build call: its arguments and what it did

builderVars == <<files, context_files, fetch_history, now, call>>

VARIABLES
  world,          \* what the sources hold and answer during the task
  task,           \* the task record: who runs it, its status and error
  pc,             \* where the task is: "task", the phases of search, "caller", "done"
  authenticated,  \* the sources whose client is authenticated
  all_items,      \* search: the items gathered, in discovery order
  seen_urls,      \* search: the urls of the items gathered
  primary_item,   \* search: the item fetched in phase 1 (0: none)
  search_keywords,\* search: the keywords of phase 3
  found,          \* what search returned or raised
  calls           \* the calls search has made to the sources and the AI

searchVars == <<world, task, pc, authenticated, all_items, seen_urls, primary_item,
                search_keywords, found, calls>>

VARIABLES
  tasks,          \* the tasks table: task id -> row
  runs,           \* the CLI gather command and the scheduler: where each stands
  writes          \* the write_text calls of the builds so far, in order

raceVars == <<tasks, runs, writes>>

vars == <<builderVars, searchVars, raceVars>>

\* no gather command and no scheduler is running
Callers == {"cli", "scheduler"}

NoRun == [pc |-> "off", task_id |-> 0, pending |-> <<>>, items |-> <<>>,
          snap_files |-> <<>>, snap_table |-> {}, seen_writes |-> 0,
          filename |-> Filename(Ticket, <<>>), keywords |-> <<>>, kept |-> <<>>,
          has_record |-> FALSE,
          error |-> "", since |-> 0]

RaceIdle ==
  /\ tasks = <<>>
  /\ runs = [p \in Callers |-> NoRun]
  /\ writes = <<>>

\* Database.get_context_file: the record of the ticket, as a set
GetContextFile(table, ticket_id) == {r \in table : r.ticket_id = ticket_id}

\* existing_content: the text of the record's file, NoFile for None
ExistingContent(table, dir, ticket_id) ==
  LET recs == GetContextFile(table, ticket_id)
  IN IF recs = {} THEN NoFile
     ELSE LET filename == (CHOOSE r \in recs : TRUE).filename
          IN IF filename \in DOMAIN dir THEN dir[filename] ELSE NoFile

\* truth value of existing_content: read from disk and not empty
Truthy(existing_content) == existing_content # NoFile /\ existing_content # <<>>

\* the bug of offering every item to the later steps
FilterExistingKeepsAll(items, existing_urls) == items

\* step 2: items not already in the existing file (no filtering when no url
\* was parsed)
FilterExisting(items, existing_urls) ==
  IF existing_urls # {}
  THEN SelectSeq(items, LAMBDA i : ~ItemInExisting(i, existing_urls))
  ELSE items

\* the bug of naming the file after fresh keywords at every build
BuildFilenameRegenerated(recs, ticket_id, items, kw) ==
  Filename(ticket_id, BuilderKeywords(items, kw))

\* the filename of the record when there is one, else
\* f"{ticket_id}_{keywords_slug}.md" from the keywords extracted
BuildFilename(recs, ticket_id, items, kw) ==
  IF recs # {} THEN (CHOOSE r \in recs : TRUE).filename
  ELSE Filename(ticket_id, BuilderKeywords(items, kw))

\* the bug of a build that takes an empty list
NoItemsNeverChecked(items) == FALSE

\* if not items: raise ValueError
NoItems(items) == items = <<>>

EmptyItemsError == "No items to build context from"
DedupFailedError == "AI deduplication failed - no items to include. Check logs for details and try again."

\* What one build call does, from the state it starts in and the answers
\* of the AI service: out is "written", "noop" or "raised".
BuildResult(dir, table, ticket_id, items, kw, dd, gr) ==
  LET recs == GetContextFile(table, ticket_id)
      existing_content == ExistingContent(table, dir, ticket_id)
      existing_urls == IF existing_content # NoFile THEN ParseExistingUrls(existing_content) ELSE {}
      keywords == IF recs # {} THEN (CHOOSE r \in recs : TRUE).keywords
                  ELSE BuilderKeywords(items, kw)
      filename == BuildFilename(recs, ticket_id, items, kw)
      new_items == FilterExisting(items, existing_urls)
      deduped == DeduplicateItems(new_items, dd)
      grouped == GroupByTopic(deduped, gr)
      base == [out |-> "raised", error |-> "", filename |-> filename, keywords |-> keywords,
               markdown |-> <<>>, kept |-> <<>>, grouped |-> <<>>]
  IN IF NoItems(items) THEN [base EXCEPT !.error = EmptyItemsError]
     ELSE IF new_items = <<>> /\ Truthy(existing_content) THEN [base EXCEPT !.out = "noop"]
     ELSE IF deduped = <<>>
          THEN IF Truthy(existing_content) THEN [base EXCEPT !.out = "noop"]
               ELSE [base EXCEPT !.error = DedupFailedError]
     ELSE [base EXCEPT !.out = "written", !.kept = deduped, !.grouped = grouped,
             !.markdown = IF Truthy(existing_content)
                          THEN AppendToExisting(existing_content, deduped, grouped)
                          ELSE GenerateMarkdown(ticket_id, deduped, grouped)]

\* ------------------------------------------------------------------------
\* Inputs of a build call: the item list and the AI service's answers
\* ------------------------------------------------------------------------
\* item lists in discovery order, at most MaxOffer long (the empty list too),
\* and one longer list out of discovery order in which two items share a url
\* and four urls are left
Offers ==
  {SeqOfSet(S) : S \in {T \in SUBSET BuildItems : Cardinality(T) <= MaxOffer}}
    \cup {<<2, 1, 5, 4, 3>>}

AiFailed == [ok |-> FALSE, words |-> <<>>, idx |-> {}, groups |-> <<>>]

KeywordAnswers == {AiFailed, [AiFailed EXCEPT !.ok = TRUE, !.words = AiWords]}

\* answers to the deduplication prompt over n items: the call raises, or any
\* set of the integers 1..n (n itself is out of range; no answer names 0)
DedupAnswers(n) == {AiFailed} \cup {[AiFailed EXCEPT !.ok = TRUE, !.idx = S] : S \in SUBSET (1..n)}

\* ways a grouping answer departs from a partition of the indices: an index
\* left out, an index put under both topics, the out-of-range index n, the
\* negative index -1
RECURSIVE SetsUpTo(_, _)
\* the subsets of S with at most k elements
SetsUpTo(S, k) ==
  IF k = 0 THEN {{}}
  ELSE LET smaller == SetsUpTo(S, k - 1)
       IN smaller \cup {A \cup {x} : A \in smaller, x \in S}

Anomalies(n) ==
  SetsUpTo(({"omit", "both"} \X (0..(n - 1))) \cup {<<"range", n>>, <<"negative", -1>>},
           MaxGroupAnomalies)

\* the answer putting index 0 under "Design" and the others under
\* "Discussion", with anomalies A
GroupAnswer(n, A) ==
  LET omit == {a[2] : a \in {x \in A : x[1] = "omit"}}
      both == {a[2] : a \in {x \in A : x[1] = "both"}}
      one == SeqOfSet(({0} \ omit) \cup both)
             \o (IF <<"range", n>> \in A THEN <<n>> ELSE <<>>)
      two == SeqOfSet(((1..(n - 1)) \ omit) \cup both)
             \o (IF <<"negative", -1>> \in A THEN <<-1>> ELSE <<>>)
  IN [AiFailed EXCEPT !.ok = TRUE,
        !.groups = <<[topic |-> "Design", idx |-> one], [topic |-> "Discussion", idx |-> two]>>]

GroupAnswers(n) == {AiFailed} \cup {GroupAnswer(n, A) : A \in Anomalies(n)}

\* ------------------------------------------------------------------------
\* ContextBuilder.build
\* ------------------------------------------------------------------------
\* the row create_context_file inserts
NewRecord(ticket_id, filename, keywords, t) ==
  [id |-> 1, ticket_id |-> ticket_id, filename |-> filename, keywords |-> keywords,
   last_updated |-> t, created_at |-> t]

\* the bug of an update that leaves last_updated as it was
UpsertContextFileKeepsTime(table, ticket_id, filename, keywords, t) ==
  IF GetContextFile(table, ticket_id) # {}
  THEN {IF r.ticket_id = ticket_id
        THEN [r EXCEPT !.filename = filename, !.keywords = keywords]
        ELSE r : r \in table}
  ELSE table \cup {NewRecord(ticket_id, filename, keywords, t)}

\* update_context_file when the ticket has a record, else create_context_file
UpsertContextFile(table, ticket_id, filename, keywords, t) ==
  IF GetContextFile(table, ticket_id) # {}
  THEN {IF r.ticket_id = ticket_id
        THEN [r EXCEPT !.filename = filename, !.keywords = keywords, !.last_updated = t]
        ELSE r : r \in table}
  ELSE table \cup {NewRecord(ticket_id, filename, keywords, t)}

\* the bug of an insert without ON CONFLICT ... DO UPDATE
UpdateFetchHistoryInsertOnly(history, id, items, t) ==
  history \cup {[context_file_id |-> id, source |-> Source(items[k]), last_fetched |-> t] :
                  k \in DOMAIN items}

\* update_fetch_history for every source among the items
UpdateFetchHistory(history, id, items, t) ==
  LET sources_seen == {Source(items[k]) : k \in DOMAIN items}
  IN {h \in history : ~(h.context_file_id = id /\ h.source \in sources_seen)}
     \cup {[context_file_id |-> id, source |-> s, last_fetched |-> t] : s \in sources_seen}

WriteText(dir, filename, text) ==
  [f \in DOMAIN dir \cup {filename} |-> IF f = filename THEN text ELSE dir[f]]

\* the bug of taking the ticket id as it is spelled
UpperOmitted(ticket_id) == ticket_id

\* ticket_id.upper(): a ticket id written in lower case is the negative of
\* the id in upper case
Upper(ticket_id) == IF ticket_id < 0 THEN -ticket_id ELSE ticket_id

\* one build call: the ticket id as the caller spells it, the items
\* offered, the AI answers kw, dd, gr
BuildCall(spelling, items, kw, dd, gr) ==
  \E ticket_id \in {Upper(spelling)} :
  \E r \in {BuildResult(files, context_files, ticket_id, items, kw, dd, gr)} :
  \E table \in {UpsertContextFile(context_files, ticket_id, r.filename, r.keywords, now + 1)} :
  LET t == now + 1
      existing_content == ExistingContent(context_files, files, ticket_id)
  IN /\ now' = t
     /\ files' = IF r.out = "written" THEN WriteText(files, r.filename, r.markdown) ELSE files
     /\ context_files' = IF r.out = "written" THEN table ELSE context_files
     /\ fetch_history' =
          IF r.out = "written"
          THEN UpdateFetchHistory(fetch_history, (CHOOSE x \in GetContextFile(table, ticket_id) : TRUE).id,
                                  r.kept, t)
          ELSE fetch_history
     /\ call' = [n |-> t, ticket_id |-> spelling, items |-> items, out |-> r.out, error |-> r.error,
                 filename |-> r.filename, kept |-> r.kept, grouped |-> r.grouped,
                 fresh |-> GetContextFile(context_files, ticket_id) = {},
                 had_content |-> Truthy(existing_content),
                 dedup_failed |-> ~dd.ok]

\* the ticket id as build is given it: "TB-1" or "tb-1"
TicketSpellings == {Ticket, -Ticket}

\* the AI calls a build makes, in order: keywords (new ticket), then
\* deduplication (more than 3 urls left), then grouping (more than 3 kept)
BuildAs(spelling, offers) ==
  /\ now < MaxBuilds
  /\ \E items \in offers :
     \E existing_content \in {ExistingContent(context_files, files, Ticket)} :
     \E new_items \in {FilterExisting(items, IF existing_content # NoFile
                                             THEN ParseExistingUrls(existing_content) ELSE {})} :
     \E reaches_dedup \in {items # <<>> /\ ~(new_items = <<>> /\ Truthy(existing_content))} :
     \E kw \in (IF items # <<>> /\ GetContextFile(context_files, Ticket) = {}
                THEN KeywordAnswers ELSE {[AiFailed EXCEPT !.ok = TRUE]}) :
     \E dd \in (IF reaches_dedup /\ DedupAsksAi(new_items)
                THEN DedupAnswers(Len(UrlPass(new_items, {})))
                ELSE {[AiFailed EXCEPT !.ok = TRUE]}) :
     \E deduped \in {DeduplicateItems(new_items, dd)} :
     \E gr \in (IF reaches_dedup /\ GroupAsksAi(deduped)
                THEN GroupAnswers(Len(deduped))
                ELSE {AiFailed}) :
       BuildCall(spelling, items, kw, dd, gr)
  /\ UNCHANGED searchVars
  /\ UNCHANGED raceVars

\* the item lists offered when the artifact may be removed between builds
LifecycleOffers == {<<>>, <<1>>, <<1, 2>>, <<3, 4>>, <<5, 6>>, <<1, 2, 3, 4>>, <<2, 3, 4, 6>>}

\* build called with the ticket id in upper case
Build == BuildAs(Ticket, Offers)

\* build called with the ticket id in either case
BuildSpelled == \E spelling \in TicketSpellings : BuildAs(spelling, LifecycleOffers)

\* the artifact of the ticket is removed from the output directory by hand
RemoveArtifact ==
  /\ now < MaxBuilds
  /\ \E r \in GetContextFile(context_files, Ticket) :
       /\ r.filename \in DOMAIN files
       /\ files' = [f \in DOMAIN files \ {r.filename} |-> files[f]]
  /\ UNCHANGED <<context_files, fetch_history, now, call>>
  /\ UNCHANGED searchVars
  /\ UNCHANGED raceVars

NoCall == [n |-> 0, ticket_id |-> Ticket, items |-> <<>>, out |-> "none", error |-> "", filename |-> Filename(Ticket, <<>>),
           kept |-> <<>>, grouped |-> <<>>, fresh |-> TRUE, had_content |-> FALSE,
           dedup_failed |-> FALSE]

\* ------------------------------------------------------------------------
\* SearchAgent: what the sources hold
\* ------------------------------------------------------------------------
\* the plugins in the plugins directory
Plugins == {"github", "jira", "slack"}

\* supported_reference_types of each plugin
SupportedReferenceTypes(source) ==
  CASE source = "github" -> {"pr", "issue", "commit"}
    [] source = "jira" -> {"ticket"}
    [] OTHER -> {"message"}

\* what the three patterns of _extract_references match in the title and
\* content of item i, pattern by pattern: <<type, id>>
References(i) ==
  CASE i = 1 -> <<<<"ticket", 1>>, <<"ticket", 2>>, <<"pr", 7>>>>
    [] i \in {2, 5, 6} -> <<<<"ticket", 1>>>>
    [] i = 14 -> <<<<"ticket", 2>>, <<"ticket", 3>>>>
    [] i = 15 -> <<<<"ticket", 2>>>>
    [] OTHER -> <<>>

\* the item get_item_details of a source returns for an id (0: None)
Details(source, id) ==
  CASE source = "jira" /\ id = 1 -> 1
    [] source = "jira" /\ id = 2 -> 14
    [] source = "jira" /\ id = 3 -> 16
    [] source = "jira" /\ id = 4 -> 17
    [] source = "github" /\ id = 7 -> 3
    [] source = "github" /\ id = 8 -> 7
    [] source = "github" /\ id = 10 -> 10
    [] source = "slack" /\ id = 9 -> 6
    [] OTHER -> 0

\* metadata["_comments"] of a fetched item; w.comments are those of TB-1
Comments(i, w) ==
  CASE i = 1 -> w.comments
    [] i = 14 -> <<15>>
    [] OTHER -> <<>>

\* what a source can find
Pool(source) ==
  CASE source = "github" -> <<3, 7, 8, 9, 10>>
    [] source = "jira" -> <<1, 14, 16, 17>>
    [] OTHER -> <<4, 11, 12, 13>>

\* the title of item i contains the ticket id, in any case
TitleNames(i, ticket_id) ==
  \/ ticket_id = 1 /\ i \in {1, 2, 3, 5}
  \/ ticket_id = 2 /\ i \in {14, 15}
  \/ ticket_id \in {3, 4} /\ JiraKey(i) = ticket_id

\* the first 500 characters of the content of item i contain the ticket id
ContentNamesEarly(i, ticket_id) ==
  \/ ticket_id = 1 /\ i \in {6, 10, 11}
  \/ ticket_id = 2 /\ i = 1

\* the content of item i contains the ticket id
ContentNames(i, ticket_id) ==
  ContentNamesEarly(i, ticket_id) \/ (ticket_id = 1 /\ i = 8)

NamesTicket(i, ticket_id) == TitleNames(i, ticket_id) \/ ContentNames(i, ticket_id)

\* ticket_id.upper() in item.title.upper() or in item.content[:500].upper()
NamesTicketEarly(i, ticket_id) ==
  TitleNames(i, ticket_id) \/ ContentNamesEarly(i, ticket_id)

\* words of the title longer than 3 characters and alphanumeric, cut to 5
TitleWords(i) ==
  CASE ItemType(i) = "ticket" -> <<100 + i, 200 + i>>
    [] i = 6 -> <<106, 206>>
    [] OTHER -> <<>>

\* client.search(query): the first query is the ticket id, the others are
\* keywords; w.hits says what keyword queries find
Hits(source, q, w) ==
  IF q = 1 THEN SelectSeq(Pool(source), LAMBDA i : NamesTicket(i, w.ticket))
  ELSE IF w.hits = "all" THEN Pool(source) ELSE <<>>

\* ------------------------------------------------------------------------
\* SearchAgent._extract_references / _expand_reference / _extract_keywords
\* ------------------------------------------------------------------------
RECURSIVE Distinct(_, _)
\* a list without the later occurrences of its elements
Distinct(s, seen) ==
  IF s = <<>> THEN <<>>
  ELSE IF Head(s) \in seen THEN Distinct(Tail(s), seen)
       ELSE <<Head(s)>> \o Distinct(Tail(s), seen \cup {Head(s)})

ExtractReferences(items) ==
  Distinct(Flatten([k \in 1..Len(items) |-> References(items[k])]), {})

\* the bug of asking plugins that are not authenticated
ResolversUnauthenticated(ref, authed) ==
  {s \in Plugins : ref[1] \in SupportedReferenceTypes(s)}

\* the plugins _expand_reference asks: they support the type and are
\* authenticated
Resolvers(ref, authed) ==
  {s \in Plugins : ref[1] \in SupportedReferenceTypes(s) /\ s \in authed}

\* get_item_details of the source raises when a reference is resolved: the
\* failure w.fail_at with query position 0
DetailsRaises(source, w) == w.fail_at = <<source, 0>>

\* the plugin answers the reference with an item
Answers(source, ref, w) == ~DetailsRaises(source, w) /\ Details(source, ref[2]) # 0

\* the first item a plugin returns for the reference, in plugin order (0: None)
ExpandReference(ref, authed, w) ==
  LET answering == SelectSeq(w.order, LAMBDA s : s \in Resolvers(ref, authed)
                                                 /\ Answers(s, ref, w))
  IN IF answering = <<>> THEN 0 ELSE Details(answering[1], ref[2])

RECURSIVE AskedAmong(_, _, _, _)
\* the plugins whose get_item_details _expand_reference calls, in order: the
\* resolvers up to the first that answers with an item
AskedAmong(order, ref, authed, w) ==
  IF order = <<>> THEN <<>>
  ELSE IF Head(order) \notin Resolvers(ref, authed) THEN AskedAmong(Tail(order), ref, authed, w)
  ELSE IF Answers(Head(order), ref, w) THEN <<Head(order)>>
  ELSE <<Head(order)>> \o AskedAmong(Tail(order), ref, authed, w)

\* the calls of get_item_details for one reference: <<source, type, id>>
ResolutionCalls(ref, authed, w) ==
  LET asked == AskedAmong(w.order, ref, authed, w)
  IN [k \in DOMAIN asked |-> <<asked[k], ref[1], ref[2]>>]

RECURSIVE AppendUnseen(_, _)
\* for item in items: if item.url not in seen_urls: append, add its url
AppendUnseen(acc, items) ==
  IF items = <<>> THEN acc
  ELSE IF Url(Head(items)) \in acc.seen THEN AppendUnseen(acc, Tail(items))
       ELSE AppendUnseen([acc EXCEPT !.items = Append(acc.items, Head(items)),
                                     !.seen = acc.seen \cup {Url(Head(items))}],
                         Tail(items))

RECURSIVE ExpandAllTransitive(_, _, _, _)
\* the bug of resolving the references of resolved items as well
ExpandAllTransitive(refs, acc, authed, w) ==
  IF refs = <<>> THEN acc
  ELSE LET item == ExpandReference(Head(refs), authed, w)
           asked == [acc EXCEPT !.asked = acc.asked \o ResolutionCalls(Head(refs), authed, w)]
       IN IF item # 0 /\ Url(item) \notin acc.seen
          THEN ExpandAllTransitive(Tail(refs) \o References(item),
                                   AppendUnseen(asked, <<item>> \o Comments(item, w)),
                                   authed, w)
          ELSE ExpandAllTransitive(Tail(refs), asked, authed, w)

RECURSIVE ExpandAll(_, _, _, _)
\* phase 2: every tier 1 reference resolved; the item and its comments are
\* added unless their url was seen
ExpandAll(refs, acc, authed, w) ==
  IF refs = <<>> THEN acc
  ELSE LET item == ExpandReference(Head(refs), authed, w)
           asked == [acc EXCEPT !.asked = acc.asked \o ResolutionCalls(Head(refs), authed, w)]
       IN IF item # 0 /\ Url(item) \notin acc.seen
          THEN ExpandAll(Tail(refs), AppendUnseen(asked, <<item>> \o Comments(item, w)),
                         authed, w)
          ELSE ExpandAll(Tail(refs), asked, authed, w)

\* the AI answer split at commas, or on failure words of the title
SearchKeywords(item, ai) ==
  IF ai.ok THEN ai.words ELSE TitleWords(item)

\* the longest keyword list put into the queries
MaxQueryKeywords == 3

\* [ticket_id] + keywords[:3], as the positions of the queries
SearchQueries(keywords) == 1..(1 + Len(Take(keywords, MaxQueryKeywords)))

\* client.search(query) raises: every search does, or the one at w.fail_at
SearchRaises(source, q, w) == w.hits = "raise" \/ <<source, q>> = w.fail_at

\* the bug of a search that passes since alone
SearchWindowSinceOnly(since, until) == <<since, 0>>

\* client.search(query=query, since=since, until=until)
SearchWindow(since, until) == <<since, until>>

\* the search is issued: acc.issued lists the calls of client.search
Issue(acc, source, q) == [acc EXCEPT !.issued = Append(acc.issued, <<source, q>>)]

RECURSIVE SearchSourceStopsAtFailure(_, _, _, _)
\* the bug of leaving the source at its first failed search
SearchSourceStopsAtFailure(acc, source, queries, w) ==
  IF queries = <<>> THEN acc
  ELSE IF SearchRaises(source, Head(queries), w) THEN Issue(acc, source, Head(queries))
  ELSE SearchSourceStopsAtFailure(
         AppendUnseen(Issue(acc, source, Head(queries)), Hits(source, Head(queries), w)),
         source, Tail(queries), w)

RECURSIVE SearchSource(_, _, _, _)
\* phase 4 in one source: query after query, a failed search is skipped
SearchSource(acc, source, queries, w) ==
  IF queries = <<>> THEN acc
  ELSE SearchSource(IF SearchRaises(source, Head(queries), w)
                    THEN Issue(acc, source, Head(queries))
                    ELSE AppendUnseen(Issue(acc, source, Head(queries)),
                                      Hits(source, Head(queries), w)),
                    source, Tail(queries), w)

RECURSIVE SearchSources(_, _, _, _)
SearchSources(acc, sources, queries, w) ==
  IF sources = <<>> THEN acc
  ELSE SearchSources(SearchSource(acc, Head(sources), queries, w), Tail(sources), queries, w)

\* the bug of searching the primary source as well
OtherSourcesWithPrimary(primary_source, authed, w) ==
  SelectSeq(w.order, LAMBDA s : s \in authed)

\* the sources phase 4 searches: every plugin but the primary source, when
\* its client is authenticated
OtherSources(primary_source, authed, w) ==
  SelectSeq(w.order, LAMBDA s : s # primary_source /\ s \in authed)

\* ------------------------------------------------------------------------
\* SearchAgent._filter_relevant
\* ------------------------------------------------------------------------
\* the number of items up to which nothing is filtered
RelevanceSmall == 10
\* the longest list put before the AI, and returned when the AI call fails
MaxItemsForAi == 50
\* the number of selected items from which tier 1 is not added
ForceIncludeBelow == 5
\* items[:20], returned on failure when tiers 1 and 2 are empty
FallbackItems == 20

StructuredTypes == {"pr", "issue", "ticket", "comment"}

\* key: primary.title up to its first ":" (0: "")
InTier1(i, key) == key # 0 /\ NamesTicketEarly(i, key)
Tier1(items, key) == SelectSeq(items, LAMBDA i : InTier1(i, key))
Tier2(items, key) ==
  SelectSeq(items, LAMBDA i : ~InTier1(i, key) /\ ItemType(i) \in StructuredTypes)
Tier3(items, key) ==
  SelectSeq(items, LAMBDA i : ~InTier1(i, key) /\ ItemType(i) \notin StructuredTypes)

ItemsForAi(items, key) ==
  LET structured == Tier1(items, key) \o Tier2(items, key)
  IN IF Len(structured) < MaxItemsForAi
     THEN structured \o Take(Tier3(items, key), MaxItemsForAi - Len(structured))
     ELSE Take(structured, MaxItemsForAi)

\* the numbers of the answer that are indices of the list, and 0
RelevantIndices(answer, n) == {x \in answer : 0 <= x /\ x < n} \cup {0}

\* the bug of returning the selected items whatever their number
ForceIncludeTier1Never(filtered, tier1_items) == filtered

\* tier 1 items added to a selection of fewer than 5 items
ForceIncludeTier1(filtered, tier1_items) ==
  IF Len(filtered) < ForceIncludeBelow /\ tier1_items # <<>>
  THEN filtered \o SelectSeq(tier1_items, LAMBDA i : i \notin Range(filtered))
  ELSE filtered

\* the bug of a fallback without its caps
RelevanceFallbackUncapped(items, tier1_items, tier2_items) ==
  IF tier1_items \o tier2_items # <<>> THEN tier1_items \o tier2_items ELSE items

\* (tier1_items + tier2_items)[:50] or items[:20]
RelevanceFallback(items, tier1_items, tier2_items) ==
  IF tier1_items \o tier2_items # <<>>
  THEN Take(tier1_items \o tier2_items, MaxItemsForAi)
  ELSE Take(items, FallbackItems)

\* the bug of returning nothing when the AI call fails
FilterRelevantFailClosed(items, primary, ai) ==
  IF Len(items) <= RelevanceSmall THEN items
  ELSE LET key == TitleKey(primary)
           items_for_ai == ItemsForAi(items, key)
           picked == SeqOfSet(RelevantIndices(ai.idx, Len(items_for_ai)))
       IN IF ai.ok
          THEN ForceIncludeTier1([k \in 1..Len(picked) |-> items_for_ai[picked[k] + 1]],
                                 Tier1(items, key))
          ELSE <<>>

\* the bug of filtering a small set as well
FilterRelevantSmallSetsToo(items, primary, ai) ==
  LET key == TitleKey(primary)
      tier1_items == Tier1(items, key)
      tier2_items == Tier2(items, key)
      items_for_ai == ItemsForAi(items, key)
      picked == SeqOfSet(RelevantIndices(ai.idx, Len(items_for_ai)))
  IN IF ai.ok
     THEN ForceIncludeTier1([k \in 1..Len(picked) |-> items_for_ai[picked[k] + 1]],
                            tier1_items)
     ELSE RelevanceFallback(items, tier1_items, tier2_items)

FilterRelevant(items, primary, ai) ==
  IF Len(items) <= RelevanceSmall THEN items
  ELSE LET key == TitleKey(primary)
           tier1_items == Tier1(items, key)
           tier2_items == Tier2(items, key)
           items_for_ai == ItemsForAi(items, key)
           picked == SeqOfSet(RelevantIndices(ai.idx, Len(items_for_ai)))
       IN IF ai.ok
          THEN ForceIncludeTier1([k \in 1..Len(picked) |-> items_for_ai[picked[k] + 1]],
                                 tier1_items)
          ELSE RelevanceFallback(items, tier1_items, tier2_items)

\* ------------------------------------------------------------------------
\* Inputs of a search: what the sources hold and answer, the AI answers
\* ------------------------------------------------------------------------
\* the number of indices by which an AI relevance answer departs from
\* naming nothing, or from naming everything
MaxPicked == 1

\* the orders in which the plugins directory is listed
Orders == {<<"github", "jira", "slack">>, <<"slack", "jira", "github">>}

\* since and until of a search without time filter (0: None)
NoWindow == <<0, 0>>

\* the since and until a caller passes: none, since only (a refresh), both
Windows == {NoWindow, <<3, 0>>, <<3, 7>>}

\* no single search raises
NoFailure == <<"", 0>>

\* the one call that raises: source and position of the query, or position
\* 0 for get_item_details of a reference (the Jira client lets through what
\* is not an httpx.HTTPError)
FailPoints == {NoFailure, <<"jira", 0>>, <<"jira", 1>>, <<"jira", 2>>}

\* a world the run reaches only the start of fixes what it does not look at
Canonical(w) ==
  /\ w.ticket = (IF w.primary_source = "slack" THEN 9 ELSE 1)
  /\ w.primary_source \in w.ready => w.auth_ok
  /\ w.primary_source \notin Plugins => w.ready = {} /\ w.auth_ok
  /\ (w.primary_source \notin Plugins \/ ~w.auth_ok) => w.primary = "absent"
  /\ w.primary # "found" =>
       w.comments = <<>> /\ w.hits = "all" /\ w.order = <<"github", "jira", "slack">>
  /\ (w.primary # "found" \/ w.hits = "raise") => w.fail_at = NoFailure
  /\ w.primary = "error" => w.primary_source = "jira"
  /\ w.window # NoWindow =>
       w.primary = "found" /\ w.hits = "all" /\ w.fail_at = NoFailure /\ w.comments = <<>>

\* primary_source: the source asked for the ticket (gitlab has no plugin);
\* ready: the sources whose client is authenticated when created; auth_ok:
\* what authenticate() of the primary source returns; primary: whether the
\* source has the ticket ("error": its get_item_details raises); comments: those attached to TB-1; hits: what
\* keyword searches find ("raise": every search raises); fail_at: the one
\* search that raises; window: the since and until given to search
Worlds ==
  {w \in [primary_source : {"jira", "slack", "gitlab"}, ticket : {1, 9},
          ready : {{}, {"jira"}, {"github", "jira"}, {"jira", "slack"}, Plugins},
          auth_ok : BOOLEAN, primary : {"found", "absent", "error"},
          comments : {<<>>, <<2>>, <<2, 5>>}, hits : {"all", "none", "raise"},
          order : Orders, fail_at : FailPoints, window : Windows] : Canonical(w)}

\* answers to the keyword prompt: the call raises, five words, no word
SearchKeywordAnswers == KeywordAnswers \cup {[AiFailed EXCEPT !.ok = TRUE]}

\* answers to the relevance prompt over n items: the call raises, or the
\* numbers of a set of at most MaxPicked of 0..n (n is out of range), or
\* all of 0..n but such a set
RelevanceAnswers(n) ==
  {AiFailed}
  \cup {[AiFailed EXCEPT !.ok = TRUE, !.idx = S] : S \in SetsUpTo(0..n, MaxPicked)}
  \cup {[AiFailed EXCEPT !.ok = TRUE, !.idx = (0..n) \ S] : S \in SetsUpTo(0..n, MaxPicked)}

\* answers of the AI to the builder after a search: the deduplication call
\* raises, names nothing, or names every index; the grouping call raises or
\* answers with a partition
CallerDedupAnswers(n) ==
  {AiFailed, [AiFailed EXCEPT !.ok = TRUE], [AiFailed EXCEPT !.ok = TRUE, !.idx = 1..(n - 1)]}
CallerGroupAnswers(n) == {AiFailed, GroupAnswer(n, {})}

\* ------------------------------------------------------------------------
\* One task: SearchAgent.search and its caller
\* ------------------------------------------------------------------------
NoError == [type |-> "", text |-> "", source |-> "", command |-> <<>>]

\* AuthenticationError("Failed to authenticate with <source>. Run 'rove
\* --add-source <source>' to re-authenticate.")
AuthenticationError(source) ==
  [type |-> "AuthenticationError", text |-> "Failed to authenticate with",
   source |-> source, command |-> <<"rove --add-source", source>>]

\* an exception out of a call of a source client
ProviderError(source, method) ==
  [type |-> "Exception", text |-> method, source |-> source, command |-> <<>>]

\* the ValueError of build
BuildError(text) == [type |-> "ValueError", text |-> text, source |-> "", command |-> <<>>]

NotReturned == [out |-> "none", items |-> <<>>, error |-> NoError, asked |-> FALSE, ai |-> AiFailed]
Returned(items) == [NotReturned EXCEPT !.out = "returned", !.items = items]
Raised(error) == [NotReturned EXCEPT !.out = "raised", !.error = error]

NoCalls == [authenticate |-> 0, details |-> 0, resolve |-> 0, search |-> 0, ai |-> 0,
            issued |-> <<>>, ai_failed |-> 0, windows |-> <<>>, asked |-> <<>>]

NoTask == [caller |-> "none", status |-> "none", prefix |-> "", error |-> NoError]

\* the scheduler takes a pending task, or the CLI creates one: in_progress
StartTask ==
  /\ pc = "task"
  /\ task' = [task EXCEPT !.status = "in_progress"]
  /\ pc' = "auth"
  /\ UNCHANGED <<world, authenticated, all_items, seen_urls, primary_item, search_keywords, found, calls>>
  /\ UNCHANGED builderVars
  /\ UNCHANGED raceVars

\* the bug of going on after authenticate() returned false
AuthenticateGoesOn ==
  /\ pc = "auth"
  /\ IF world.primary_source \notin Plugins
     THEN /\ found' = Returned(<<>>)
          /\ pc' = "caller"
          /\ UNCHANGED <<authenticated, calls>>
     ELSE IF world.primary_source \in authenticated
     THEN /\ pc' = "fetch"
          /\ UNCHANGED <<authenticated, calls, found>>
     ELSE /\ calls' = [calls EXCEPT !.authenticate = @ + 1]
          /\ authenticated' = IF world.auth_ok THEN authenticated \cup {world.primary_source}
                              ELSE authenticated
          /\ pc' = "fetch"
          /\ UNCHANGED found
  /\ UNCHANGED <<world, task, all_items, seen_urls, primary_item, search_keywords>>
  /\ UNCHANGED builderVars
  /\ UNCHANGED raceVars

\* search up to the primary client being authenticated
Authenticate ==
  /\ pc = "auth"
  /\ IF world.primary_source \notin Plugins
     THEN /\ found' = Returned(<<>>)
          /\ pc' = "caller"
          /\ UNCHANGED <<authenticated, calls>>
     ELSE IF world.primary_source \in authenticated
     THEN /\ pc' = "fetch"
          /\ UNCHANGED <<authenticated, calls, found>>
     ELSE /\ calls' = [calls EXCEPT !.authenticate = @ + 1]
          /\ IF world.auth_ok
             THEN /\ authenticated' = authenticated \cup {world.primary_source}
                  /\ pc' = "fetch"
                  /\ UNCHANGED found
             ELSE /\ found' = Raised(AuthenticationError(world.primary_source))
                  /\ pc' = "caller"
                  /\ UNCHANGED authenticated
  /\ UNCHANGED <<world, task, all_items, seen_urls, primary_item, search_keywords>>
  /\ UNCHANGED builderVars
  /\ UNCHANGED raceVars

\* phase 1: the primary item and its comments
FetchPrimary ==
  /\ pc = "fetch"
  /\ calls' = [calls EXCEPT !.details = @ + 1]
  /\ \E item \in {IF world.primary = "found"
                  THEN Details(world.primary_source, world.ticket) ELSE 0} :
       IF world.primary = "error"
       THEN /\ found' = Raised(ProviderError(world.primary_source, "get_item_details"))
            /\ pc' = "caller"
            /\ UNCHANGED <<all_items, seen_urls, primary_item>>
       ELSE IF item = 0
       THEN /\ found' = Returned(<<>>)
            /\ pc' = "caller"
            /\ UNCHANGED <<all_items, seen_urls, primary_item>>
       ELSE /\ primary_item' = item
            /\ all_items' = <<item>> \o Comments(item, world)
            /\ seen_urls' = {Url(item)} \cup {Url(c) : c \in Range(Comments(item, world))}
            /\ pc' = "expand"
            /\ UNCHANGED found
  /\ UNCHANGED <<world, task, authenticated, search_keywords>>
  /\ UNCHANGED builderVars
  /\ UNCHANGED raceVars

\* phase 2: the references of tier 1 but the ticket itself, resolved
ExpandReferences ==
  /\ pc = "expand"
  /\ \E refs \in {SelectSeq(ExtractReferences(all_items), LAMBDA r : r[2] # world.ticket)} :
     \E acc \in {ExpandAll(refs, [items |-> all_items, seen |-> seen_urls, asked |-> <<>>],
                            authenticated, world)} :
       /\ all_items' = acc.items
       /\ seen_urls' = acc.seen
       /\ calls' = [calls EXCEPT !.resolve =
                      @ + Cardinality({k \in DOMAIN refs : Resolvers(refs[k], authenticated) # {}}),
                      !.asked = acc.asked]
  /\ pc' = "search_keywords"
  /\ UNCHANGED <<world, task, authenticated, primary_item, search_keywords, found>>
  /\ UNCHANGED builderVars
  /\ UNCHANGED raceVars

\* the bug of a keyword phase that is entered again after its first AI call
ExtractKeywordsEnteredAgain ==
  /\ pc = "search_keywords"
  /\ \E ai \in SearchKeywordAnswers :
       /\ search_keywords' = SearchKeywords(primary_item, ai)
       /\ calls' = [calls EXCEPT !.ai = @ + 1, !.ai_failed = @ + (IF ai.ok THEN 0 ELSE 1)]
  /\ pc' = IF calls.ai = 0 THEN "search_keywords" ELSE "sources"
  /\ UNCHANGED <<world, task, authenticated, all_items, seen_urls, primary_item, found>>
  /\ UNCHANGED builderVars
  /\ UNCHANGED raceVars

\* phase 3: keywords of the primary item, by the AI
ExtractKeywords ==
  /\ pc = "search_keywords"
  /\ \E ai \in SearchKeywordAnswers :
       /\ search_keywords' = SearchKeywords(primary_item, ai)
       /\ calls' = [calls EXCEPT !.ai = @ + 1, !.ai_failed = @ + (IF ai.ok THEN 0 ELSE 1)]
  /\ pc' = "sources"
  /\ UNCHANGED <<world, task, authenticated, all_items, seen_urls, primary_item, found>>
  /\ UNCHANGED builderVars
  /\ UNCHANGED raceVars

\* phase 4: the other sources searched for the ticket id and the search_keywords
SearchOtherSources ==
  /\ pc = "sources"
  /\ \E sources \in {OtherSources(world.primary_source, authenticated, world)} :
     \E queries \in {SeqOfSet(SearchQueries(search_keywords))} :
     \E acc \in {SearchSources([items |-> all_items, seen |-> seen_urls, issued |-> <<>>],
                                sources, queries, world)} :
       /\ all_items' = acc.items
       /\ seen_urls' = acc.seen
       /\ calls' = [calls EXCEPT !.search = @ + Len(acc.issued), !.issued = acc.issued,
                       !.windows = [k \in DOMAIN acc.issued |->
                                      SearchWindow(world.window[1], world.window[2])]]
  /\ pc' = "filter"
  /\ UNCHANGED <<world, task, authenticated, primary_item, search_keywords, found>>
  /\ UNCHANGED builderVars
  /\ UNCHANGED raceVars

\* phase 5: the relevance filter, and the return
FilterForRelevance ==
  /\ pc = "filter"
  /\ \E asked \in {Len(all_items) > 1 /\ Len(all_items) > RelevanceSmall} :
     \E ai \in (IF asked THEN RelevanceAnswers(Len(ItemsForAi(all_items, TitleKey(primary_item))))
                ELSE {AiFailed}) :
       /\ found' = [Returned(IF Len(all_items) > 1
                             THEN FilterRelevant(all_items, primary_item, ai)
                             ELSE all_items) EXCEPT !.asked = asked, !.ai = ai]
       /\ calls' = [calls EXCEPT !.ai = @ + (IF asked THEN 1 ELSE 0),
                                 !.ai_failed = @ + (IF asked /\ ~ai.ok THEN 1 ELSE 0)]
  /\ pc' = "caller"
  /\ UNCHANGED <<world, task, authenticated, all_items, seen_urls, primary_item, search_keywords>>
  /\ UNCHANGED builderVars
  /\ UNCHANGED raceVars

\* the bug of building whatever search returned
CallsBuildAlways(items) == TRUE

\* "if items:" in _build_context, "if not items: ... return" in the CLI
CallsBuild(items) == items # <<>>

\* the caller after search: _build_context and _process_pending_tasks of the
\* scheduler, cmd_build_context of the CLI.  An exception fails the task;
\* build is called only with a list that is not empty.
FinishTask ==
  /\ pc = "caller"
  /\ pc' = "done"
  /\ IF found.out = "raised"
     THEN /\ task' = [task EXCEPT !.status = "failed", !.error = found.error,
                        !.prefix = IF task.caller = "scheduler"
                                      /\ found.error.type = "AuthenticationError"
                                   THEN "Authentication required: " ELSE ""]
          /\ UNCHANGED builderVars
     ELSE IF ~CallsBuild(found.items)
     THEN /\ task' = [task EXCEPT !.status = "completed"]
          /\ UNCHANGED builderVars
     ELSE /\ \E items \in {found.items} :
             \E kw \in KeywordAnswers :
             \E dd \in (IF DedupAsksAi(items) THEN CallerDedupAnswers(Len(UrlPass(items, {})))
                        ELSE {[AiFailed EXCEPT !.ok = TRUE]}) :
             \E deduped \in {DeduplicateItems(items, dd)} :
             \E gr \in (IF GroupAsksAi(deduped) THEN CallerGroupAnswers(Len(deduped))
                        ELSE {AiFailed}) :
               BuildCall(world.ticket, items, kw, dd, gr)
          /\ task' = IF call'.out = "raised"
                     THEN [task EXCEPT !.status = "failed", !.error = BuildError(call'.error)]
                     ELSE [task EXCEPT !.status = "completed"]
  /\ UNCHANGED <<world, authenticated, all_items, seen_urls, primary_item, search_keywords,
                 found, calls>>
  /\ UNCHANGED raceVars

\* no task is run
SearchIdle ==
  /\ world = [primary_source |-> "jira", ticket |-> Ticket, ready |-> {}, auth_ok |-> TRUE,
              primary |-> "absent", comments |-> <<>>, hits |-> "all",
              order |-> <<"github", "jira", "slack">>, fail_at |-> NoFailure,
                   window |-> NoWindow]
  /\ task = NoTask
  /\ pc = "off"
  /\ authenticated = {}
  /\ all_items = <<>>
  /\ seen_urls = {}
  /\ primary_item = 0
  /\ search_keywords = <<>>
  /\ found = NotReturned
  /\ calls = NoCalls

\* builds alone: a new database, an empty output directory, no task
BuilderInit ==
  /\ files = <<>>
  /\ context_files = {}
  /\ fetch_history = {}
  /\ now = 0
  /\ call = NoCall
  /\ RaceIdle
  /\ SearchIdle

BuilderNext == Build

BuilderSpec == BuilderInit /\ [][BuilderNext]_vars

\* builds of one ticket under either spelling, its artifact removed at times
LifecycleNext == BuildSpelled \/ RemoveArtifact

LifecycleSpec == BuilderInit /\ [][LifecycleNext]_vars

\* a new database and an empty output directory; a build task for the
\* ticket, pending in the scheduler's queue or about to be created by the CLI
SearchInit ==
  /\ files = <<>>
  /\ context_files = {}
  /\ fetch_history = {}
  /\ now = 0
  /\ call = NoCall
  /\ RaceIdle
  /\ world \in Worlds
  /\ \E caller \in {"scheduler", "cli"} :
       task = [NoTask EXCEPT !.caller = caller, !.status = "pending"]
  /\ pc = "task"
  /\ authenticated = world.ready
  /\ all_items = <<>>
  /\ seen_urls = {}
  /\ primary_item = 0
  /\ search_keywords = <<>>
  /\ found = NotReturned
  /\ calls = NoCalls

SearchNext ==
  \/ StartTask
  \/ Authenticate
  \/ FetchPrimary
  \/ ExpandReferences
  \/ ExtractKeywords
  \/ SearchOtherSources
  \/ FilterForRelevance
  \/ FinishTask

SearchSpec == SearchInit /\ [][SearchNext]_vars

\* ------------------------------------------------------------------------
\* _filter_relevant alone, over the long lists a busy repository yields
\* ------------------------------------------------------------------------
\* the most prs and the most commits among the hits of the searches
MaxBulkPrs == 52
MaxBulkCommits == 22

BulkPrCounts == {0, 8} \cup ((MaxBulkPrs - 6)..MaxBulkPrs)
BulkCommitCounts == {0, 12} \cup ((MaxBulkCommits - 3)..MaxBulkCommits)

\* what phases 1 to 4 gathered: the primary item (with a comment and a pr
\* naming it, for the Jira ticket), then the hits in either order
GatheredLists(primary) ==
  {(IF primary = 1 THEN <<1, 2, 3>> ELSE <<primary>>)
     \o (IF commits_first THEN BulkCommits(m) \o BulkPrs(n) ELSE BulkPrs(n) \o BulkCommits(m)) :
     n \in BulkPrCounts, m \in BulkCommitCounts, commits_first \in BOOLEAN}

\* search before phase 5: TB-1 of Jira or the Slack message is the primary
\* item, GitHub has been searched
FilterInit ==
  /\ files = <<>>
  /\ context_files = {}
  /\ fetch_history = {}
  /\ now = 0
  /\ call = NoCall
  /\ RaceIdle
  /\ \E primary \in {1, 6} :
       /\ primary_item = primary
       /\ world = [primary_source |-> Source(primary),
                   ticket |-> (IF primary = 1 THEN 1 ELSE 9),
                   ready |-> {"github", "jira"}, auth_ok |-> TRUE, primary |-> "found",
                   comments |-> (IF primary = 1 THEN <<2>> ELSE <<>>), hits |-> "all",
                   order |-> <<"github", "jira", "slack">>, fail_at |-> NoFailure,
                   window |-> NoWindow]
       /\ all_items \in GatheredLists(primary)
       /\ search_keywords = TitleWords(primary)
  /\ task = [NoTask EXCEPT !.caller = "scheduler", !.status = "in_progress"]
  /\ pc = "filter"
  /\ authenticated = world.ready \cup {world.primary_source}
  /\ seen_urls = {Url(i) : i \in Range(all_items)}
  /\ found = NotReturned
  /\ calls = [NoCalls EXCEPT !.details = 1, !.ai = 1]

FilterNext == FilterForRelevance

FilterSpec == FilterInit /\ [][FilterNext]_vars

\* ------------------------------------------------------------------------
\* Properties of build
\* ------------------------------------------------------------------------
\* the artifact of the ticket before and after a call
Artifact(dir, filename) == IF filename \in DOMAIN dir THEN dir[filename] ELSE <<>>

RefSeq(doc) == SelectSeq(doc, LAMBDA l : l.k = "ref")
HeaderSeq(doc) == SelectSeq(doc, LAMBDA l : l.k = "item")

\* every reference number of a document, in section headers and in the
\* reference list
NumbersIn(doc) == {l.num : l \in Range(RefSeq(doc)) \cup Range(HeaderSeq(doc))}

\* C1: build on a ticket with no record, then build again with the same
\* item list: the second call returns the first call's filename and leaves
\* the artifact as it is.
C1_BuildTwiceIsIdempotent ==
  [][(/\ call.out = "written" /\ call.fresh
      /\ call'.n = call.n + 1
      /\ call'.items = call.items)
     => (/\ call'.out # "raised"
         /\ call'.filename = call.filename
         /\ files' = files)]_builderVars

\* C2: no non-empty url occurs in two item sections or in two entries of
\* the reference list of an artifact.
C2_UrlsUniqueInDocument ==
  \A f \in DOMAIN files :
    /\ \A j, k \in DOMAIN RefSeq(files[f]) :
         (RefSeq(files[f])[j].url = RefSeq(files[f])[k].url /\ RefSeq(files[f])[j].url # EmptyUrl)
           => j = k
    /\ \A j, k \in DOMAIN HeaderSeq(files[f]) :
         (Url(HeaderSeq(files[f])[j].it) = Url(HeaderSeq(files[f])[k].it)
          /\ Url(HeaderSeq(files[f])[j].it) # EmptyUrl)
           => j = k

\* C3: an append numbers its items from one past the highest number in the
\* old document, one by one, so each new number is above every old one and
\* no number is carried by two sections or two reference lines.
C3_ReferenceNumbersMonotonic ==
  [][(call'.n # call.n /\ call'.out = "written" /\ call'.had_content)
     => LET old == Artifact(files, call'.filename)
            new == Artifact(files', call'.filename)
            added == Len(GroupedItems(call'.grouped))
            top == IF NumbersIn(old) = {} THEN 0 ELSE SetMax(NumbersIn(old))
        IN /\ Len(RefSeq(new)) = Len(RefSeq(old)) + added
           /\ \A k \in 1..added : RefSeq(new)[Len(RefSeq(old)) + k].num = top + k
           /\ \A k \in 1..added :
                \E h \in DOMAIN HeaderSeq(new) :
                  /\ HeaderSeq(new)[h].num = top + k
                  /\ HeaderSeq(new)[h].it = GroupedItems(call'.grouped)[k]
           /\ \A j, k \in DOMAIN RefSeq(new) : RefSeq(new)[j].num = RefSeq(new)[k].num => j = k
           /\ \A j, k \in DOMAIN HeaderSeq(new) :
                HeaderSeq(new)[j].num = HeaderSeq(new)[k].num => j = k]_builderVars

\* an append of two or more items has happened
C3_Witness == call.n >= 2 /\ call.out = "written" /\ call.had_content /\ Len(call.kept) >= 2

\* C6: no existing document, more than 3 distinct urls offered, the AI
\* deduplication call raises: build raises an error that is not the
\* empty-input error and writes no artifact, record or fetch history.
C6_DedupFailureIsFatalOnNewTicket ==
  [][(/\ call'.n # call.n
      /\ ~call'.had_content
      /\ Cardinality({Url(call'.items[k]) : k \in DOMAIN call'.items}) > 3
      /\ call'.dedup_failed)
     => (/\ call'.out = "raised"
         /\ call'.error # EmptyItemsError
         /\ call'.error # ""
         /\ files' = files
         /\ context_files' = context_files
         /\ fetch_history' = fetch_history)]_builderVars

\* a build on a ticket without document has raised the deduplication error
C6_Witness ==
  /\ call.out = "raised" /\ call.dedup_failed /\ ~call.had_content
  /\ call.error = DedupFailedError
  /\ files = <<>> /\ context_files = {}

\* item i is already in the document: its url is not empty and stands in
\* the reference list
Listed(doc, i) ==
  Url(i) # EmptyUrl /\ \E k \in DOMAIN doc : doc[k].k = "ref" /\ doc[k].url = Url(i)

SearchEnded == pc \in {"caller", "done"}

\* the relevance filter keeps the primary item
FilterKeepsPrimary ==
  (found.out = "returned" /\ Len(all_items) > RelevanceSmall)
    => primary_item \in Range(found.items)

\* deduplication of a list headed by the primary item keeps the primary item
DedupKeepsPrimary ==
  (call.n > 0 /\ call.items # <<>> /\ call.items[1] = primary_item)
    => primary_item \in Range(call.kept)

\* C4: when search has gathered more than 10 items the primary item is in
\* the list the relevance filter returns, whatever the AI answered and when
\* the AI call failed; and the deduplication of a list whose first item is
\* the primary item keeps it, whatever the AI answered and when the AI call
\* failed.
C4_PrimaryItemRetained == FilterKeepsPrimary /\ DedupKeepsPrimary

\* the indices an AI relevance answer selects, index 0 counted
Selected == RelevantIndices(found.ai.idx, Len(ItemsForAi(all_items, TitleKey(primary_item))))

\* C5 as stated: with more than 10 items gathered, every gathered item whose
\* content contains the ticket id is in the list search returns, whatever
\* indices the AI relevance answer names.
C5_TicketMentionsAlwaysReturned ==
  (found.out = "returned" /\ found.asked /\ found.ai.ok)
    => \A k \in DOMAIN all_items :
         ContentNames(all_items[k], world.ticket) => all_items[k] \in Range(found.items)

\* C5: with more than 10 items gathered and an AI relevance answer that
\* selects fewer than 5 items (index 0 counted), every gathered item whose
\* title or first 500 characters of content contain the id at the head of
\* the primary item's title is in the list search returns; when the answer
\* selects 5 items or more, the list is the selected items and nothing else.
C5_TierOneForcedBelowFive ==
  (found.out = "returned" /\ found.asked /\ found.ai.ok)
    => IF Cardinality(Selected) < ForceIncludeBelow
       THEN \A k \in DOMAIN all_items :
              InTier1(all_items[k], TitleKey(primary_item))
                => all_items[k] \in Range(found.items)
       ELSE Range(found.items) =
              {ItemsForAi(all_items, TitleKey(primary_item))[x + 1] : x \in Selected}

\* an answer naming fewer than 5 indices left out an item that names the
\* ticket, and the item is returned
C5_Witness ==
  /\ found.out = "returned" /\ found.asked /\ found.ai.ok
  /\ Cardinality(Selected) < ForceIncludeBelow
  /\ \E x \in 1..(Len(all_items) - 1) :
       LET i == ItemsForAi(all_items, TitleKey(primary_item))[x + 1]
       IN x \notin Selected /\ InTier1(i, TitleKey(primary_item)) /\ i \in Range(found.items)

\* C8: when the primary source is not authenticated and authenticate()
\* returns false, search raises AuthenticationError naming the source and
\* the command to authenticate again, after one authenticate() call and no
\* call of get_item_details, of a source search or of the AI.
C8_PrimaryAuthFailureIsFatal ==
  (/\ SearchEnded
   /\ world.primary_source \in Plugins
   /\ world.primary_source \notin world.ready
   /\ ~world.auth_ok)
    => /\ found.out = "raised"
       /\ found.error.type = "AuthenticationError"
       /\ found.error.source = world.primary_source
       /\ found.error.command = <<"rove --add-source", world.primary_source>>
       /\ calls = [NoCalls EXCEPT !.authenticate = 1]

\* the task of a search that raised AuthenticationError has ended
C8_Witness ==
  /\ pc = "done" /\ found.out = "raised" /\ found.error.type = "AuthenticationError"
  /\ calls.authenticate = 1 /\ ~world.auth_ok /\ task.status = "failed"

\* C9: when the primary source has no item for the ticket id, search
\* returns the empty list without resolving a reference, calling the AI or
\* searching another source, and the caller then calls no build, writes no
\* document and leaves the task completed.
C9_PrimaryNotFoundEndsQuietly ==
  (world.primary_source \in Plugins /\ world.primary = "absent" /\ calls.details > 0)
    => /\ found = Returned(<<>>)
       /\ calls.details = 1 /\ calls.resolve = 0 /\ calls.search = 0 /\ calls.ai = 0
       /\ call = NoCall /\ now = 0
       /\ files = <<>> /\ context_files = {} /\ fetch_history = {}
       /\ pc \in {"caller", "done"}
       /\ pc = "done" => task.status = "completed" /\ task.error = NoError

\* the task of a search whose primary item was not found has ended
C9_Witness ==
  /\ pc = "done" /\ world.primary = "absent" /\ calls.details = 1
  /\ found = Returned(<<>>) /\ task.status = "completed"

\* C10: the list search returns has no two items with the same url,
\* whatever the sources returned and whatever the AI answered.
C10_ReturnedUrlsDistinct ==
  found.out = "returned"
    => \A j, k \in DOMAIN found.items :
         j # k => Url(found.items[j]) # Url(found.items[k])

\* the place of an item in a list without repetitions
Pos(s, x) == CHOOSE k \in DOMAIN s : s[k] = x

\* C11: the list search returns is a subsequence of the list in discovery
\* order: every returned item was gathered, and two returned items stand in
\* the order in which they were discovered.
C11_DiscoveryOrderKept ==
  found.out = "returned"
    => /\ \A k \in DOMAIN found.items : found.items[k] \in Range(all_items)
       /\ \A j, k \in DOMAIN found.items :
            j < k => Pos(all_items, found.items[j]) < Pos(all_items, found.items[k])

\* C12: when search returns a non-empty list, its first element is the
\* primary item fetched in phase 1, whatever the number of gathered items and
\* whatever the AI relevance call answered.
C12_PrimaryItemFirst ==
  (found.out = "returned" /\ found.items # <<>>)
    => found.items[1] = primary_item

\* s is the beginning of t
IsPrefix(s, t) == Len(s) <= Len(t) /\ \A k \in DOMAIN s : s[k] = t[k]

\* every query put to every searched source, source after source
AllSearches(sources, queries) ==
  Flatten([k \in 1..Len(sources) |-> [j \in 1..Len(queries) |-> <<sources[k], queries[j]>>]])

\* C13: a search() call of a secondary source that raises is skipped: phase 4
\* still issues every query of every authenticated source but the primary one,
\* the items gathered before are kept at the head of the list, the hits of
\* every search that did not raise are gathered, and search goes on to the
\* relevance filter and returns.
C13_FailedQueryIsSkipped ==
  [][/\ pc = "sources" =>
          /\ pc' = "filter"
          /\ calls'.issued =
               AllSearches(OtherSources(world.primary_source, authenticated, world),
                           SeqOfSet(SearchQueries(search_keywords)))
          /\ IsPrefix(all_items, all_items')
          /\ \A k \in DOMAIN calls'.issued :
               LET s == calls'.issued[k][1]
                   q == calls'.issued[k][2]
               IN ~SearchRaises(s, q, world) =>
                    \A i \in Range(Hits(s, q, world)) :
                      \E x \in Range(all_items') : Url(x) = Url(i)
     /\ pc = "filter" => found'.out = "returned"]_vars

\* one search raised, and later searches of that source and of another
\* source were issued and brought items
C13_Witness ==
  /\ pc = "filter"
  /\ world.hits # "raise"
  /\ \E k \in DOMAIN calls.issued :
       /\ calls.issued[k] = world.fail_at
       /\ \E j \in (k + 1)..Len(calls.issued) :
            /\ calls.issued[j][1] = world.fail_at[1]
            /\ \E i \in Range(Hits(calls.issued[j][1], calls.issued[j][2], world)) :
                 i \in Range(all_items)
       /\ \E j \in (k + 1)..Len(calls.issued) :
            /\ calls.issued[j][1] # world.fail_at[1]
            /\ \E i \in Range(Hits(calls.issued[j][1], calls.issued[j][2], world)) :
                 i \in Range(all_items)

\* C14: no exception of a call of a source client comes out of search, but
\* the AuthenticationError of a failed authentication of the primary source:
\* whenever search raises, it raises that error and authenticate() had
\* returned false; an exception of the primary get_item_details stays inside.
C14_OnlyAuthenticationErrorPropagates ==
  found.out = "raised"
    => /\ found.error = AuthenticationError(world.primary_source)
       /\ ~world.auth_ok

\* C15: a failure of the AI never aborts search: when the primary source is
\* authenticated and has the ticket, search returns a list that is not empty
\* and raises nothing, whether the keyword call, the relevance call or both
\* raise or answer with text that holds no keyword and no index.
C15_AiFailureNeverAbortsSearch ==
  (SearchEnded /\ world.primary = "found")
    => /\ found.out = "returned"
       /\ found.items # <<>>

\* the keyword call and the relevance call both raised, and search returned
C15_Witness ==
  /\ SearchEnded
  /\ world.primary = "found"
  /\ found.asked
  /\ calls.ai = 2
  /\ calls.ai_failed = 2
  /\ found.out = "returned"

\* C16: when more than 10 items were gathered and the AI relevance call
\* fails, search returns the first 50 items of the list "items naming the
\* ticket id, then the other prs, issues, tickets and comments", each part in
\* gathered order, when that list is not empty, and the first 20 gathered
\* items otherwise.
C16_FallbackIsTiersCappedOrFirstTwenty ==
  (pc = "caller" /\ found.out = "returned" /\ found.asked /\ ~found.ai.ok)
    => LET key == TitleKey(primary_item)
           ab == Tier1(all_items, key) \o Tier2(all_items, key)
           from == IF ab # <<>> THEN ab ELSE all_items
           cap == IF ab # <<>> THEN MaxItemsForAi ELSE FallbackItems
       IN /\ Len(all_items) > RelevanceSmall
          /\ Len(found.items) = (IF Len(from) < cap THEN Len(from) ELSE cap)
          /\ \A k \in DOMAIN found.items : found.items[k] = from[k]

\* the AI call failed over more than 50 items of tiers A and B: 50 returned
C16_Witness ==
  /\ pc = "caller" /\ found.asked /\ ~found.ai.ok
  /\ Tier1(all_items, TitleKey(primary_item)) # <<>>
  /\ Len(Tier1(all_items, TitleKey(primary_item)) \o Tier2(all_items, TitleKey(primary_item)))
       > MaxItemsForAi
  /\ Len(found.items) = MaxItemsForAi

\* ------------------------------------------------------------------------
\* Properties of the record and the artifact over builds
\* ------------------------------------------------------------------------
\* a step of build that returned a filename
BuildReturned == now' # now /\ call'.out \in {"written", "noop"}

\* C17: once the ticket has a ContextFileRecord, no step changes the filename
\* of the record or removes the record, every build that returns gives back
\* that filename, and a step writes to no other file, also when the artifact
\* had been removed from the output directory.
C17_FilenameIsStable ==
  [][\A r \in GetContextFile(context_files, Ticket) :
       /\ \E r2 \in context_files' : r2.ticket_id = r.ticket_id /\ r2.filename = r.filename
       /\ \A r2 \in context_files' : r2.ticket_id = r.ticket_id => r2.filename = r.filename
       /\ BuildReturned => call'.filename = r.filename
       /\ \A f \in DOMAIN files' :
            (f \notin DOMAIN files \/ files'[f] # files[f]) => f = r.filename]_vars

\* a second build, spelled in lower case, wrote the artifact anew under the
\* recorded name after it had been removed
C17_Witness ==
  /\ call.n = 2 /\ call.out = "written"
  /\ call.ticket_id = -Ticket
  /\ ~call.fresh /\ ~call.had_content
  /\ call.filename \in DOMAIN files
  /\ \E r \in GetContextFile(context_files, Ticket) :
       r.filename = call.filename /\ r.last_updated = 2 /\ r.created_at = 1

\* the record of the ticket is kept by the step
RecordKept ==
  \A r \in context_files :
    \E r2 \in context_files' :
      r2.id = r.id /\ r2.ticket_id = r.ticket_id /\ r2.created_at = r.created_at

\* the first build that returns creates the record
FirstBuildCreates ==
  (BuildReturned /\ GetContextFile(context_files, Ticket) = {})
    => \E r2 \in GetContextFile(context_files', Ticket) :
         r2.created_at = now' /\ r2.last_updated = now'

\* C18 as stated: the first successful build creates the record, no step
\* deletes it, and every later build that returns advances its last_updated.
C18_EveryReturnUpdatesRecord ==
  [][/\ FirstBuildCreates
     /\ RecordKept
     /\ \A r \in GetContextFile(context_files, Ticket) :
          BuildReturned =>
            \E r2 \in GetContextFile(context_files', Ticket) :
              r2.last_updated > r.last_updated]_vars

\* C18: the first successful build creates the record, no step deletes it,
\* every later build that writes the artifact advances its last_updated to
\* the time of the build, and a build that returns without writing (every
\* item already present, or nothing kept by deduplication over an existing
\* document) or raises leaves the table as it was.
C18_WritingBuildUpdatesRecord ==
  [][/\ FirstBuildCreates
     /\ RecordKept
     /\ \A r \in GetContextFile(context_files, Ticket) :
          (now' # now /\ call'.out = "written") =>
            \E r2 \in GetContextFile(context_files', Ticket) :
              r2.last_updated = now' /\ r2.last_updated > r.last_updated
     /\ (now' # now /\ call'.out # "written") => context_files' = context_files]_vars

\* a second build appended to the document and the record's last_updated
\* moved from the first build's time to the second's
C18_Witness ==
  /\ call.n = 2 /\ call.out = "written"
  /\ ~call.fresh /\ call.had_content
  /\ \E r \in GetContextFile(context_files, Ticket) :
       r.last_updated = 2 /\ r.created_at = 1

\* C19: whenever build returns a filename, the output directory holds an
\* artifact of that name, the table holds exactly one record for the ticket
\* id in upper case, and that record carries the returned filename; when the
\* ticket had no record, the name is made of the ticket id in upper case and
\* of the first keywords of the record, at most 4 of them.
C19_BuildPostcondition ==
  [][BuildReturned =>
       LET recs == {r \in context_files' : r.ticket_id = Ticket}
       IN /\ call'.filename \in DOMAIN files'
          /\ Cardinality(recs) = 1
          /\ \A r \in recs :
               /\ r.filename = call'.filename
               /\ GetContextFile(context_files, Ticket) = {} =>
                    /\ call'.filename.ticket = Ticket
                    /\ Len(call'.filename.slug) <= 4
                    /\ Len(call'.filename.slug) = (IF Len(r.keywords) < 4 THEN Len(r.keywords) ELSE 4)
                    /\ IsPrefix(call'.filename.slug, r.keywords)]_vars

\* a first build spelled "tb-1" whose five AI keywords gave a name of four
C19_Witness ==
  /\ call.n = 1 /\ call.out = "written" /\ call.fresh
  /\ call.ticket_id = -Ticket
  /\ call.filename.ticket = Ticket
  /\ Len(call.filename.slug) = 4
  /\ call.filename \in DOMAIN files
  /\ \E r \in context_files : r.ticket_id = Ticket /\ Len(r.keywords) = 5

\* the sources of the items a build kept
KeptSources(c) == {Source(i) : i \in Range(c.kept)}

\* C20: a build that writes the artifact leaves a fetch-history record of
\* its own time for the document and every source of an item it kept, and
\* writes none for any other source; a build that writes nothing leaves the
\* fetch history as it was; the table never holds two records for one
\* document and source.
C20_FetchHistoryFollowsKeptItems ==
  [][/\ (now' # now /\ call'.out = "written") =>
          \A r \in GetContextFile(context_files', Ticket) :
            /\ \A s \in KeptSources(call') :
                 [context_file_id |-> r.id, source |-> s, last_fetched |-> now']
                   \in fetch_history'
            /\ \A h \in fetch_history' : h.source \notin KeptSources(call') => h \in fetch_history
            /\ \A h \in fetch_history : h.source \notin KeptSources(call') => h \in fetch_history'
     /\ (now' # now /\ call'.out # "written") => fetch_history' = fetch_history
     /\ \A h1, h2 \in fetch_history' :
          (h1.context_file_id = h2.context_file_id /\ h1.source = h2.source) => h1 = h2]_vars

\* a second build kept a Jira item and dropped the GitHub item it was
\* offered: the Jira record moved to its time, GitHub has no record, and the
\* Slack record of the first build stayed
C20_Witness ==
  /\ call.n = 2 /\ call.out = "written"
  /\ "jira" \in KeptSources(call)
  /\ \E i \in Range(call.items) : Source(i) = "github"
  /\ "github" \notin KeptSources(call)
  /\ \E h \in fetch_history : h.source = "jira" /\ h.last_fetched = 2
  /\ \E h \in fetch_history : h.source = "slack" /\ h.last_fetched = 1
  /\ \A h \in fetch_history : h.source # "github"

\* ------------------------------------------------------------------------
\* Further properties of build and of search
\* ------------------------------------------------------------------------
\* C21: build called with an empty item list for a ticket without a record
\* raises "No items to build context from" and leaves the output directory,
\* the context_files table and the fetch history as they were: no artifact,
\* no record, no fetch-history record.
C21_EmptyBuildRaisesAndCreatesNothing ==
  [][(now' # now /\ call'.items = <<>> /\ GetContextFile(context_files, Ticket) = {}) =>
       /\ call'.out = "raised"
       /\ call'.error = EmptyItemsError
       /\ files' = files /\ DOMAIN files' = {}
       /\ context_files' = {}
       /\ fetch_history' = {}]_vars

\* the first build of the ticket was offered nothing and raised
C21_Witness ==
  /\ call.n = 1 /\ call.items = <<>> /\ call.fresh
  /\ call.out = "raised" /\ call.error = EmptyItemsError
  /\ context_files = {} /\ fetch_history = {} /\ DOMAIN files = {}

\* the queries put to source s, in the order of the calls
QueriesOf(issued, s) ==
  LET mine == SelectSeq(issued, LAMBDA c : c[1] = s)
  IN [k \in DOMAIN mine |-> mine[k][2]]

C23_TimeFiltersPassedUnchanged ==
  /\ Len(calls.windows) = Len(calls.issued)
  /\ \A k \in DOMAIN calls.windows : calls.windows[k] = world.window

\* search was given a since and an until and searched two sources
C23_Witness ==
  /\ pc = "filter"
  /\ world.window = <<3, 7>>
  /\ \E j, k \in DOMAIN calls.issued : calls.issued[j][1] # calls.issued[k][1]
  /\ \A k \in DOMAIN calls.windows : calls.windows[k] = <<3, 7>>

\* tier 1: the primary item and the comments attached to it
TierOne ==
  IF primary_item = 0 THEN <<>> ELSE <<primary_item>> \o Comments(primary_item, world)

\* the references of tier 1 but those to the ticket itself
TierOneReferences ==
  SelectSeq(ExtractReferences(TierOne), LAMBDA r : r[2] # world.ticket)

PhaseRank(phase) ==
  CASE phase = "off" -> 0
    [] phase = "task" -> 1
    [] phase = "auth" -> 2
    [] phase = "fetch" -> 3
    [] phase = "expand" -> 4
    [] phase = "search_keywords" -> 5
    [] phase = "sources" -> 6
    [] phase = "filter" -> 7
    [] phase = "caller" -> 8
    [] OTHER -> 9

C27_SmallSetsReturnedUnfiltered ==
  (pc \in {"caller", "done"} /\ primary_item # 0 /\ Len(all_items) <= RelevanceSmall) =>
    /\ ~found.asked
    /\ calls.ai = 1
    /\ found.out = "returned"
    /\ found.items = all_items

\* ten items gathered, of more than one source, and returned
C27_Witness ==
  /\ pc = "caller"
  /\ Len(all_items) = RelevanceSmall
  /\ Cardinality({Source(i) : i \in Range(all_items)}) > 1
  /\ ~found.asked
  /\ found.items = all_items


\* ------------------------------------------------------------------------
\* The gather command of the CLI and the scheduler process on one store
\* ------------------------------------------------------------------------
\* the refresh tasks _refresh_stale_contexts creates in a behaviour
MaxRefreshTasks == 1

\* what a search for the ticket returns: nothing, or the ticket and its
\* comment, alone or with one more item
RaceOffers == {<<>>, <<1, 2>>, <<1, 2, 3>>, <<1, 2, 6>>}

\* Database.create_task: a row with status 'pending'; started and completed
\* count the times started_at and completed_at are set
CreateTask(table, ticket_id, task_type) ==
  Append(table, [ticket_id |-> ticket_id, task_type |-> task_type, status |-> "pending",
                 started |-> 0, completed |-> 0, error_message |-> ""])

\* Database.update_task_status: UPDATE tasks SET status = ? WHERE id = ?,
\* whatever the status of the row is
UpdateTaskStatus(table, id, status, error_message) ==
  [table EXCEPT ![id].status = status,
                ![id].started = @ + (IF status = "in_progress" THEN 1 ELSE 0),
                ![id].completed = @ + (IF status \in {"completed", "failed"} THEN 1 ELSE 0),
                ![id].error_message = IF status \in {"completed", "failed"}
                                      THEN error_message ELSE @]

\* Database.get_pending_tasks: the ids of the pending rows, oldest first
GetPendingTasks(table) == SeqOfSet({id \in DOMAIN table : table[id].status = "pending"})

\* where a caller goes on after its task: the command ends, the scheduler
\* takes the next task of its list
AfterTask(p) == IF p = "cli" THEN "done" ELSE "next"

\* cmd_build_context: task_id = await db.create_task(ticket_id, "build")
CliCreateTask ==
  /\ runs["cli"].pc = "start"
  /\ tasks' = CreateTask(tasks, Ticket, "build")
  /\ runs' = [runs EXCEPT !["cli"].pc = "created", !["cli"].task_id = Len(tasks) + 1]
  /\ UNCHANGED writes
  /\ UNCHANGED builderVars
  /\ UNCHANGED searchVars

\* cmd_build_context: await db.update_task_status(task_id, "in_progress")
CliMarkInProgress ==
  /\ runs["cli"].pc = "created"
  /\ tasks' = UpdateTaskStatus(tasks, runs["cli"].task_id, "in_progress", "")
  /\ runs' = [runs EXCEPT !["cli"].pc = "search"]
  /\ UNCHANGED writes
  /\ UNCHANGED builderVars
  /\ UNCHANGED searchVars

\* _refresh_stale_contexts: a refresh task for a record that is due
RefreshStaleContexts ==
  /\ runs["scheduler"].pc # "off"
  /\ Cardinality({id \in DOMAIN tasks : tasks[id].task_type = "refresh"}) < MaxRefreshTasks
  /\ \E record \in context_files :
       tasks' = CreateTask(tasks, record.ticket_id, "refresh")
  /\ UNCHANGED <<runs, writes>>
  /\ UNCHANGED builderVars
  /\ UNCHANGED searchVars

\* _process_pending_tasks: pending_tasks = await self._db.get_pending_tasks()
ProcessPendingTasks ==
  /\ runs["scheduler"].pc = "idle"
  /\ runs' = [runs EXCEPT !["scheduler"].pc = "next",
                          !["scheduler"].pending = GetPendingTasks(tasks)]
  /\ UNCHANGED <<tasks, writes>>
  /\ UNCHANGED builderVars
  /\ UNCHANGED searchVars

\* for task in pending_tasks: update_task_status(task.id, "in_progress"); the
\* job ends with the list
TakeTask ==
  /\ runs["scheduler"].pc = "next"
  /\ IF runs["scheduler"].pending = <<>>
     THEN /\ runs' = [runs EXCEPT !["scheduler"] = [NoRun EXCEPT !.pc = "idle"]]
          /\ UNCHANGED tasks
     ELSE /\ tasks' = UpdateTaskStatus(tasks, Head(runs["scheduler"].pending), "in_progress", "")
          /\ runs' = [runs EXCEPT !["scheduler"].pc = "search",
                                  !["scheduler"].task_id = Head(runs["scheduler"].pending),
                                  !["scheduler"].pending = Tail(runs["scheduler"].pending)]
  /\ UNCHANGED writes
  /\ UNCHANGED builderVars
  /\ UNCHANGED searchVars

\* the bug of searching from the newest fetch on
OldestFetchIsNewest(times) == SetMax(times)

\* min(since_times.values())
OldestFetch(times) == CHOOSE t \in times : \A u \in times : t <= u

\* the length of config.scheduler.refresh_interval ("6h") and of
\* staleness_threshold ("7d"), in units of three hours
RefreshInterval == 2
StalenessThreshold == 56

\* the since a caller gives search (0: None): none for a build task and for
\* the gather command without --since; for a refresh task of a ticket with a
\* record the oldest last_fetched of its fetch history, or the time one
\* refresh interval ago when it has no history
SearchSince(p) ==
  LET recs == GetContextFile(context_files, Ticket)
      times == {h.last_fetched :
                  h \in {x \in fetch_history :
                           \E r \in recs : x.context_file_id = r.id}}
  IN IF p = "cli" \/ tasks[runs[p].task_id].task_type # "refresh" \/ recs = {} THEN 0
     ELSE IF times # {} THEN OldestFetch(times)
     ELSE now - RefreshInterval

\* search returns to its caller or raises; build is called with a list that
\* is not empty
SearchReturns(p) ==
  /\ runs[p].pc = "search"
  /\ \E raised \in {"", "AuthenticationError", "Exception"} :
     \E items \in (IF raised # "" THEN {<<>>} ELSE RaceOffers) :
       runs' = [runs EXCEPT ![p].pc = IF raised # "" \/ ~CallsBuild(items)
                                      THEN "finish" ELSE "load",
                            ![p].items = items,
                            ![p].error = raised,
                            ![p].since = SearchSince(p)]
  /\ UNCHANGED <<tasks, writes>>
  /\ UNCHANGED builderVars
  /\ UNCHANGED searchVars

\* build up to existing_content: the record and the text of its file as
\* they are now
LoadExisting(p) ==
  /\ runs[p].pc = "load"
  /\ runs' = [runs EXCEPT ![p].pc = "write",
                          ![p].snap_files = files,
                          ![p].snap_table = context_files,
                          ![p].seen_writes = Len(writes)]
  /\ UNCHANGED <<tasks, writes>>
  /\ UNCHANGED builderVars
  /\ UNCHANGED searchVars

\* a build that reads the text again at the moment it writes
ExistingAtWrite(loaded, current) == current

\* the existing content a build appends to: what it read when it started
ExistingAtLoad(loaded, current) == loaded

\* build from the filter to output_path.write_text(markdown), with the AI
\* calls between
WriteArtifact(p) ==
  /\ runs[p].pc = "write"
  /\ \E dir \in {ExistingAtLoad(runs[p].snap_files, files)} :
     \E table \in {runs[p].snap_table} :
     \E items \in {runs[p].items} :
     \E existing_content \in {ExistingContent(table, dir, Ticket)} :
     \E new_items \in {FilterExisting(items, IF existing_content # NoFile
                                             THEN ParseExistingUrls(existing_content) ELSE {})} :
     \E reaches_dedup \in {~(new_items = <<>> /\ Truthy(existing_content))} :
     \E kw \in (IF GetContextFile(table, Ticket) = {}
                THEN KeywordAnswers ELSE {[AiFailed EXCEPT !.ok = TRUE]}) :
     \E dd \in (IF reaches_dedup /\ DedupAsksAi(new_items)
                THEN DedupAnswers(Len(UrlPass(new_items, {})))
                ELSE {[AiFailed EXCEPT !.ok = TRUE]}) :
     \E deduped \in {DeduplicateItems(new_items, dd)} :
     \E gr \in (IF reaches_dedup /\ GroupAsksAi(deduped)
                THEN GroupAnswers(Len(deduped))
                ELSE {AiFailed}) :
     \E r \in {BuildResult(dir, table, Ticket, items, kw, dd, gr)} :
       IF r.out = "written"
       THEN /\ files' = WriteText(files, r.filename, r.markdown)
            /\ writes' = Append(writes, [by |-> p, task |-> runs[p].task_id,
                                         seen_writes |-> runs[p].seen_writes,
                                         filename |-> r.filename, markdown |-> r.markdown,
                                         kept |-> r.kept,
                                         existing |-> existing_content])
            /\ runs' = [runs EXCEPT ![p].pc = "check", ![p].filename = r.filename,
                                    ![p].keywords = r.keywords, ![p].kept = r.kept]
       ELSE /\ runs' = [runs EXCEPT ![p].pc = "finish", ![p].error = r.error]
            /\ UNCHANGED <<files, writes>>
  /\ UNCHANGED <<context_files, fetch_history, now, call, tasks>>
  /\ UNCHANGED searchVars

\* existing = await self.db.get_context_file(ticket_id)
CheckRecord(p) ==
  /\ runs[p].pc = "check"
  /\ runs' = [runs EXCEPT ![p].pc = "upsert",
                          ![p].has_record = GetContextFile(context_files, Ticket) # {}]
  /\ UNCHANGED <<tasks, writes>>
  /\ UNCHANGED builderVars
  /\ UNCHANGED searchVars

IntegrityError == "UNIQUE constraint failed: context_files.ticket_id"

\* update_context_file or create_context_file, then the fetch history; the
\* INSERT of a ticket that got its record meanwhile fails, the UPDATE of a
\* ticket that lost it changes nothing
UpsertRecord(p) ==
  /\ runs[p].pc = "upsert"
  /\ IF ~runs[p].has_record /\ GetContextFile(context_files, Ticket) # {}
     THEN /\ runs' = [runs EXCEPT ![p].pc = "finish", ![p].error = IntegrityError]
          /\ UNCHANGED <<context_files, fetch_history, now>>
     ELSE IF runs[p].has_record /\ GetContextFile(context_files, Ticket) = {}
     THEN /\ runs' = [runs EXCEPT ![p].pc = "finish"]
          /\ UNCHANGED <<context_files, fetch_history, now>>
     ELSE \E table \in {UpsertContextFile(context_files, Ticket, runs[p].filename,
                                          runs[p].keywords, now + 1)} :
            /\ context_files' = table
            /\ fetch_history' =
                 UpdateFetchHistory(fetch_history,
                                    (CHOOSE x \in GetContextFile(table, Ticket) : TRUE).id,
                                    runs[p].kept, now + 1)
            /\ now' = now + 1
            /\ runs' = [runs EXCEPT ![p].pc = "finish"]
  /\ UNCHANGED <<files, call, tasks, writes>>
  /\ UNCHANGED searchVars

\* the bug of a failed task without its error message
ErrorMessageDropped(p, error) == ""

\* str(e), after "Authentication required: " in the scheduler's branch for
\* an AuthenticationError; None for a task that completed
ErrorMessage(p, error) ==
  IF error = "" THEN ""
  ELSE IF p = "scheduler" /\ error = "AuthenticationError"
  THEN "Authentication required: " \o error
  ELSE error

\* update_task_status(task_id, "completed"), or "failed" in the except
\* branch of the caller
FinishRun(p) ==
  /\ runs[p].pc = "finish"
  /\ tasks' = UpdateTaskStatus(tasks, runs[p].task_id,
                               IF runs[p].error = "" THEN "completed" ELSE "failed",
                               ErrorMessage(p, runs[p].error))
  /\ runs' = [runs EXCEPT ![p] = [NoRun EXCEPT !.pc = AfterTask(p),
                                               !.task_id = runs[p].task_id,
                                               !.pending = runs[p].pending]]
  /\ UNCHANGED writes
  /\ UNCHANGED builderVars
  /\ UNCHANGED searchVars

\* the store before the command and the scheduler start: empty, or as the
\* first build of the ticket and its comment left it
RaceInit ==
  /\ \E r \in {BuildResult(<<>>, {}, Ticket, <<1, 2>>, AiFailed,
                           [AiFailed EXCEPT !.ok = TRUE], AiFailed)} :
     \E built \in BOOLEAN :
       /\ files = IF built THEN WriteText(<<>>, r.filename, r.markdown) ELSE <<>>
       /\ context_files = IF built
                          THEN UpsertContextFile({}, Ticket, r.filename, r.keywords, 1)
                          ELSE {}
       /\ fetch_history = IF built THEN UpdateFetchHistory({}, 1, r.kept, 1) ELSE {}
       /\ now = IF built THEN 1 ELSE 0
  /\ call = NoCall
  /\ SearchIdle
  /\ tasks = <<>>
  /\ runs = [p \in Callers |-> [NoRun EXCEPT !.pc = IF p = "cli" THEN "start" ELSE "idle"]]
  /\ writes = <<>>

RaceNext ==
  \/ CliCreateTask
  \/ CliMarkInProgress
  \/ RefreshStaleContexts
  \/ ProcessPendingTasks
  \/ TakeTask
  \/ \E p \in Callers : SearchReturns(p)
  \/ \E p \in Callers : LoadExisting(p)
  \/ \E p \in Callers : WriteArtifact(p)
  \/ \E p \in Callers : CheckRecord(p)
  \/ \E p \in Callers : UpsertRecord(p)
  \/ \E p \in Callers : FinishRun(p)

RaceSpec == RaceInit /\ [][RaceNext]_vars


\* writes j and k, in this order, of two builds that both read the same
\* existing document before either wrote, and kept different new items
Interleaved(j, k) ==
  /\ j < k
  /\ writes[k].seen_writes < j
  /\ writes[j].seen_writes = writes[k].seen_writes
  /\ writes[j].filename = writes[k].filename
  /\ Truthy(writes[j].existing) /\ Truthy(writes[k].existing)
  /\ Range(writes[j].kept) \cap Range(writes[k].kept) = {}

\* the section headings and reference lines a write added to what it read
AddedLines(w) ==
  {l \in Range(w.markdown) : l.k \in {"item", "ref"}} \ Range(w.existing)

\* C28: when two builds of the ticket both read the existing document
\* before either writes, a reference number given by the earlier write to
\* one of its new items is given by the later write to a different item, and
\* the text the later build writes holds none of the sections and references
\* the earlier one added: after it the file is that text.
C28_InterleavedBuildsReuseNumbers ==
  \A j, k \in DOMAIN writes :
    Interleaved(j, k) =>
      /\ \E a \in AddedLines(writes[j]) :
         \E b \in AddedLines(writes[k]) :
           /\ a.k = "ref" /\ b.k = "ref"
           /\ a.num = b.num
           /\ a.it # b.it
      /\ AddedLines(writes[j]) \cap Range(writes[k].markdown) = {}
      /\ k = Len(writes) => files[writes[k].filename] = writes[k].markdown

\* the command and the scheduler both appended to the document of the first
\* build; the file is what the later of them wrote, and a number the earlier
\* gave to its item now names the item of the later
C28_Witness ==
  /\ Len(writes) = 2
  /\ Interleaved(1, 2)
  /\ writes[1].by # writes[2].by
  /\ files[writes[2].filename] = writes[2].markdown
  /\ \E a \in AddedLines(writes[1]) :
       /\ a.k = "ref"
       /\ a.num \in ExistingRefs(files[writes[2].filename])
       /\ a \notin Range(files[writes[2].filename])


\* build has been entered for the caller's task and has not returned
InBuild(p) == runs[p].pc \in {"write", "check", "upsert"}

\* C29: the gather command and the scheduler's task processor are never
\* both inside build for the same ticket.
C29_BuildsSerializedPerTicket ==
  ~(/\ InBuild("cli") /\ InBuild("scheduler")
    /\ tasks[runs["cli"].task_id].ticket_id = tasks[runs["scheduler"].task_id].ticket_id)

\* the task the gather command created is taken by no scheduler
CliTaskLeftAlone ==
  runs["cli"].task_id # 0 => runs["scheduler"].task_id # runs["cli"].task_id

\* started_at of a task is set once at most
StartedOnce == \A id \in DOMAIN tasks : tasks[id].started <= 1

\* a completed or failed task keeps its status
TerminalStatusKept ==
  \A id \in DOMAIN tasks :
    tasks[id].status \in {"completed", "failed"} => tasks'[id].status = tasks[id].status

\* C30: the task of the gather command is never taken by the scheduler, no
\* task is set in progress twice, and the status of a completed or failed
\* task never changes again.
C30_TaskExecutedAtMostOnce ==
  /\ [](CliTaskLeftAlone /\ StartedOnce)
  /\ [][TerminalStatusKept]_vars


\* ------------------------------------------------------------------------
\* The scheduler process alone: its two jobs on the store
\* ------------------------------------------------------------------------
\* the clock up to which the refresh job fires
MaxClock == 8

\* needs_refresh of a record the job does not skip as too old
NeedsRefresh(record, t) ==
  /\ ~(record.created_at < t - StalenessThreshold)
  /\ t - record.last_updated > RefreshInterval

\* _refresh_stale_contexts, fired every refresh interval: a refresh task
\* for every record that needs one, whatever tasks there are already
RefreshJob ==
  /\ now < MaxClock
  /\ \E t \in {((now \div RefreshInterval) + 1) * RefreshInterval} :
     \E due \in {{r \in context_files : NeedsRefresh(r, t)}} :
       /\ now' = t
       /\ tasks' = IF due = {} THEN tasks
                   ELSE CreateTask(tasks, (CHOOSE r \in due : TRUE).ticket_id, "refresh")
  /\ UNCHANGED <<files, context_files, fetch_history, call, runs, writes>>
  /\ UNCHANGED searchVars

\* Database.delete_context_file, called from outside while a refresh task
\* of the ticket waits: the row goes, its fetch history stays (foreign keys
\* are not switched on)
DeleteContextFile ==
  /\ \E id \in DOMAIN tasks : tasks[id].status = "pending"
  /\ GetContextFile(context_files, Ticket) # {}
  /\ context_files' = context_files \ GetContextFile(context_files, Ticket)
  /\ UNCHANGED <<files, fetch_history, now, call>>
  /\ UNCHANGED raceVars
  /\ UNCHANGED searchVars

\* the scheduler starts on the store the first build of the ticket and its
\* comment left
SchedulerInit ==
  /\ \E r \in {BuildResult(<<>>, {}, Ticket, <<1, 2>>, AiFailed,
                           [AiFailed EXCEPT !.ok = TRUE], AiFailed)} :
       /\ files = WriteText(<<>>, r.filename, r.markdown)
       /\ context_files = UpsertContextFile({}, Ticket, r.filename, r.keywords, 1)
       /\ fetch_history = UpdateFetchHistory({}, 1, r.kept, 1)
  /\ now = 1
  /\ call = NoCall
  /\ SearchIdle
  /\ tasks = <<>>
  /\ runs = [p \in Callers |-> [NoRun EXCEPT !.pc = IF p = "cli" THEN "off" ELSE "idle"]]
  /\ writes = <<>>

SchedulerNext ==
  \/ RefreshJob
  \/ DeleteContextFile
  \/ ProcessPendingTasks
  \/ TakeTask
  \/ SearchReturns("scheduler")
  \/ LoadExisting("scheduler")
  \/ WriteArtifact("scheduler")
  \/ CheckRecord("scheduler")
  \/ UpsertRecord("scheduler")
  \/ FinishRun("scheduler")

SchedulerSpec == SchedulerInit /\ [][SchedulerNext]_vars


\* the statuses a task may go to from a status
TaskMoves ==
  {<<"pending", "in_progress">>, <<"in_progress", "completed">>, <<"in_progress", "failed">>}

\* the scheduler is between two passes, or between two tasks of a pass
BetweenTasks == runs["scheduler"].pc \in {"idle", "next"}

\* C31: a task goes from pending to in_progress and from there to completed
\* or failed, and nowhere else; started_at and completed_at are set once;
\* between the tasks of a pass and after it no task is in progress; a task
\* whose search or build raised ends failed with an error message, a task
\* without error ends completed; and the step that fails a task leaves the
\* rest of the pass's list as it is, the next step taking its head.
C31_TaskLifecycle ==
  /\ [](\A id \in DOMAIN tasks :
          /\ tasks[id].started = (IF tasks[id].status = "pending" THEN 0 ELSE 1)
          /\ tasks[id].completed = (IF tasks[id].status \in {"completed", "failed"} THEN 1 ELSE 0)
          /\ tasks[id].status = "failed" <=> tasks[id].error_message # ""
          /\ BetweenTasks => tasks[id].status # "in_progress")
  /\ [][/\ \A id \in DOMAIN tasks :
             /\ tasks'[id].status # tasks[id].status =>
                  <<tasks[id].status, tasks'[id].status>> \in TaskMoves
             /\ (tasks[id].status = "in_progress" /\ tasks'[id].status # "in_progress") =>
                  /\ tasks'[id].status = (IF runs["scheduler"].error = ""
                                          THEN "completed" ELSE "failed")
                  /\ runs'["scheduler"].pc = "next"
                  /\ runs'["scheduler"].pending = runs["scheduler"].pending
        /\ (runs["scheduler"].pc = "next" /\ runs["scheduler"].pending # <<>>
            /\ runs'["scheduler"] # runs["scheduler"]) =>
             /\ tasks'[Head(runs["scheduler"].pending)].status = "in_progress"
             /\ runs'["scheduler"].task_id = Head(runs["scheduler"].pending)
     ]_vars

\* in a pass over two tasks the first has just failed on an
\* AuthenticationError; the second is still on the list, to be taken next
C31_Witness ==
  /\ runs["scheduler"].pc = "next"
  /\ runs["scheduler"].task_id = 1
  /\ runs["scheduler"].pending = <<2>>
  /\ tasks[1].status = "failed"
  /\ tasks[1].error_message = "Authentication required: AuthenticationError"
  /\ tasks[2].status = "pending"


\* the step adds a refresh task
RefreshQueued ==
  Len(tasks') > Len(tasks) /\ tasks'[Len(tasks')].task_type = "refresh"

\* a refresh task of the ticket waits or runs
RefreshOutstanding(ticket_id) ==
  \E id \in DOMAIN tasks :
    /\ tasks[id].task_type = "refresh" /\ tasks[id].ticket_id = ticket_id
    /\ tasks[id].status \in {"pending", "in_progress"}

\* the last refresh task of the ticket completed and wrote nothing
LastRefreshFoundNothing(ticket_id) ==
  \E id \in DOMAIN tasks :
    /\ tasks[id].task_type = "refresh" /\ tasks[id].ticket_id = ticket_id
    /\ \A later \in DOMAIN tasks :
         (tasks[later].task_type = "refresh" /\ tasks[later].ticket_id = ticket_id)
           => later <= id
    /\ tasks[id].status = "completed"
    /\ \A k \in DOMAIN writes : writes[k].task # id

DuplicateRefreshQueued == RefreshQueued /\ RefreshOutstanding(tasks'[Len(tasks')].ticket_id)

RequeuedAfterNothingNew == RefreshQueued /\ LastRefreshFoundNothing(tasks'[Len(tasks')].ticket_id)

\* C32: no refresh task is created for a ticket that has a refresh task
\* pending or in progress, nor for a ticket whose last refresh completed
\* without finding anything new.
C32_NoDuplicateRefreshWork ==
  [][~DuplicateRefreshQueued /\ ~RequeuedAfterNothingNew]_vars


\* the last_fetched times of the fetch history of the ticket's record
FetchTimes ==
  {h.last_fetched :
     h \in {x \in fetch_history :
              \E r \in GetContextFile(context_files, Ticket) : x.context_file_id = r.id}}

\* the scheduler's search for a refresh task returns in this step
RefreshSearched ==
  /\ runs["scheduler"].pc = "search"
  /\ runs'["scheduler"].pc # "search"
  /\ tasks[runs["scheduler"].task_id].task_type = "refresh"

\* C33: the search of a refresh task for a ticket with a record and a fetch
\* history is given as since a last_fetched of that history that none of
\* them is older than; the search of a refresh task for a ticket without
\* record is given no since, and its items go to build as those of a build
\* task do.
C33_RefreshWindow ==
  [][RefreshSearched =>
       /\ (GetContextFile(context_files, Ticket) # {} /\ FetchTimes # {}) =>
            /\ runs'["scheduler"].since \in FetchTimes
            /\ \A t \in FetchTimes : runs'["scheduler"].since <= t
       /\ GetContextFile(context_files, Ticket) = {} =>
            /\ runs'["scheduler"].since = 0
            /\ runs'["scheduler"].pc = (IF CallsBuild(runs'["scheduler"].items)
                                           /\ runs'["scheduler"].error = ""
                                        THEN "load" ELSE "finish")
    ]_vars

\* a refresh searched from the older of two last fetches on: Jira was
\* fetched at the first build, GitHub at an earlier refresh
C33_Witness ==
  /\ runs["scheduler"].pc = "load"
  /\ tasks[runs["scheduler"].task_id].task_type = "refresh"
  /\ Cardinality(FetchTimes) = 2
  /\ runs["scheduler"].since = 1
  /\ \E h \in fetch_history : h.source = "github" /\ h.last_fetched > 1

\* ------------------------------------------------------------------------
\* The shape of what deduplicate_items returns
\* ------------------------------------------------------------------------
RECURSIVE IsSubsequence(_, _)
\* s is t with some elements left out
IsSubsequence(s, t) ==
  IF s = <<>> THEN TRUE
  ELSE IF t = <<>> THEN FALSE
  ELSE IF Head(s) = Head(t) THEN IsSubsequence(Tail(s), Tail(t))
  ELSE IsSubsequence(s, Tail(t))

DistinctUrls(items) ==
  \A j, k \in DOMAIN items : j # k => Url(items[j]) # Url(items[k])

\* the list deduplicate_items is given by the build of this step: the
\* offered items that are not yet in the artifact
DedupInput ==
  LET existing_content == ExistingContent(context_files, files, Ticket)
  IN FilterExisting(call'.items, IF existing_content # NoFile
                                 THEN ParseExistingUrls(existing_content) ELSE {})

\* the build of this step wrote what a deduplication that did not fail kept
DedupReturned == BuildReturned /\ call'.out = "written" /\ ~call'.dedup_failed

\* C34: whenever deduplicate_items returns without a failed AI call, what it
\* returns is a subsequence of its input, holds no two items of the same
\* url and holds the first item of the input; when the url pass leaves 3
\* items or fewer, the AI is not asked and exactly these items come back.
C34_DedupResultShape ==
  [][DedupReturned =>
       /\ IsSubsequence(call'.kept, DedupInput)
       /\ DistinctUrls(call'.kept)
       /\ call'.kept # <<>> /\ call'.kept[1] = DedupInput[1]
       /\ Len(UrlPass(DedupInput, {})) <= DedupSmall
            => /\ ~DedupAsksAi(DedupInput)
               /\ call'.kept = UrlPass(DedupInput, {})]_vars

\* a build kept the first item and one more of four items of distinct urls
\* left by the url pass of five
C34_Witness ==
  /\ call.out = "written" /\ ~call.dedup_failed
  /\ call.items = <<2, 1, 5, 4, 3>>
  /\ call.kept = <<2, 4>>

\* ------------------------------------------------------------------------
\* Grouping as a partition of the kept items
\* ------------------------------------------------------------------------
\* number of places item i has in the groups
PlacesOf(grouped, i) ==
  Cardinality({k \in DOMAIN GroupedItems(grouped) : GroupedItems(grouped)[k] = i})

\* C35: after a build that wrote the artifact, every item kept by
\* deduplication is in exactly one topic group and no group is empty, so
\* that each kept item is rendered once under one reference number.
C35_GroupingIsPartition ==
  call.out = "written" =>
    /\ \A i \in Range(call.kept) : PlacesOf(call.grouped, i) = 1
    /\ \A g \in DOMAIN call.grouped : call.grouped[g].items # <<>>

\* ------------------------------------------------------------------------
\* What an append keeps of the document it finds
\* ------------------------------------------------------------------------
\* the lines of the item sections of a document, in order
SectionLines(text) == SelectSeq(text, LAMBDA l : l.k \in {"item", "quote", "raw", "attr"})

\* the build of this step appended to the document it found
Appended == BuildReturned /\ call'.out = "written" /\ call'.had_content

\* C36: an append keeps every line of every item section and every
\* reference-list entry of the document it found, unchanged and in order,
\* and puts the new sections and the new reference lines after them, also
\* when the content of a rendered item has a "---" line of its own.
C36_AppendPreservesDocument ==
  [][Appended =>
       /\ IsPrefix(SectionLines(files[call'.filename]), SectionLines(files'[call'.filename]))
       /\ IsPrefix(RefSeq(files[call'.filename]), RefSeq(files'[call'.filename]))]_vars

\* ------------------------------------------------------------------------
\* Reference numbers of a new document and of the first append to it
\* ------------------------------------------------------------------------
\* the last build wrote a new document
WroteNew == call.out = "written" /\ ~call.had_content

\* the last build wrote a new document from the ticket and other items, each
\* of them grouped once
WroteTicketAndOthers ==
  /\ WroteNew
  /\ Len(call.kept) >= 2
  /\ ItemType(call.kept[1]) = "ticket"
  /\ \A i \in Range(call.kept) : PlacesOf(call.grouped, i) = 1

\* the sections of the ticket carry no number (0) and the other sections
\* carry 1, 2, ... in rendering order
OthersNumberedFromOne(doc) ==
  LET others == SelectSeq(HeaderSeq(doc), LAMBDA l : ItemType(l.it) # "ticket")
  IN /\ \A h \in DOMAIN HeaderSeq(doc) :
          ItemType(HeaderSeq(doc)[h].it) = "ticket" => HeaderSeq(doc)[h].num = 0
     /\ \A h \in DOMAIN others : others[h].num = h

\* the build of this step appends one item to the new document the build
\* before it wrote
AppendsOneToNew ==
  /\ WroteNew
  /\ Appended
  /\ Len(GroupedItems(call'.grouped)) = 1

\* the number of the section the build of this step put last
LastNumber == HeaderSeq(files'[call'.filename])[Len(HeaderSeq(files'[call'.filename]))].num

\* C37 as stated: a new document of the ticket and k other items has the
\* ticket's section without a number and the others numbered 1..k, and the
\* one item the next build appends gets k + 1.
C37_TicketUnnumberedOthersFromOne ==
  /\ [](WroteTicketAndOthers => OthersNumberedFromOne(files[call.filename]))
  /\ [][(AppendsOneToNew /\ WroteTicketAndOthers) => LastNumber = Len(call.kept)]_vars

\* C37: a new document numbers every section, the ticket's too: the
\* sections carry 1, 2, ... in rendering order, as many as the grouping has
\* places (k + 1 for the ticket and k other items each grouped once), and
\* the one item the next build appends gets the next number (k + 2).
C37_AllSectionsNumbered ==
  /\ [](WroteNew =>
          /\ Len(HeaderSeq(files[call.filename])) = Len(GroupedItems(call.grouped))
          /\ \A h \in DOMAIN HeaderSeq(files[call.filename]) :
               /\ HeaderSeq(files[call.filename])[h].num = h
               /\ HeaderSeq(files[call.filename])[h].it = GroupedItems(call.grouped)[h])
  /\ [][AppendsOneToNew =>
          /\ HeaderSeq(files'[call'.filename])[Len(HeaderSeq(files'[call'.filename]))].it
               = GroupedItems(call'.grouped)[1]
          /\ LastNumber = Len(GroupedItems(call.grouped)) + 1]_vars

\* the ticket, its comment, a pull request and a message were written as
\* sections 1 to 4, and the next build appended one message as section 5
C37_Witness ==
  /\ call.n = 2 /\ call.out = "written" /\ call.had_content
  /\ call.kept = <<6>>
  /\ LET headers == HeaderSeq(files[call.filename])
     IN /\ Len(headers) = 5
        /\ headers[1].it = 1 /\ headers[1].num = 1
        /\ \A h \in 1..5 : headers[h].num = h

\* ------------------------------------------------------------------------
\* The counts of the Sources table
\* ------------------------------------------------------------------------
\* the "Items Found" a document shows for a source (0: no row)
ItemsFound(doc, s) == ParsedCounts(doc)[s]

\* number of item sections of a source in a document
Persisted(doc, s) ==
  Cardinality({h \in DOMAIN HeaderSeq(doc) : Source(HeaderSeq(doc)[h].it) = s})

\* C38: in every artifact, after the first build and after every append,
\* the "Items Found" of each source is the number of items of that source
\* the document holds.
C38_CountsMatchPersisted ==
  \A f \in DOMAIN files : \A s \in Range(SourceOrder) :
    ItemsFound(files[f], s) = Persisted(files[f], s)

\* ------------------------------------------------------------------------
\* What the already-present filter drops
\* ------------------------------------------------------------------------
\* the items a document holds: those of its sections and of its
\* reference-list entries
ItemsOf(doc) == {l.it : l \in {x \in Range(doc) : x.k \in {"item", "ref"}}}

\* item i, or for a ticket a ticket of the same id, is in the document
PersistedBefore(i, doc) ==
  \E j \in ItemsOf(doc) :
    \/ Url(j) = Url(i)
    \/ /\ ItemType(i) = "ticket" /\ ItemType(j) = "ticket"
       /\ JiraKey(i) # 0 /\ JiraKey(j) = JiraKey(i)

\* the offered items step 2 of the build of this step dropped
DroppedAsPresent == Range(call'.items) \ Range(DedupInput)

\* C39: a build drops an offered item as already present only if the
\* document it found holds an item of the same url or, for a ticket, a
\* ticket of the same id; the ticket is not dropped because only a comment
\* on it is in the document.
C39_OnlyPersistedItemsDropped ==
  [][(BuildReturned /\ call'.had_content)
       => \A i \in DroppedAsPresent : PersistedBefore(i, files[call'.filename])]_vars

\* ------------------------------------------------------------------------
\* Builds in which the store fails after the artifact is written
\* ------------------------------------------------------------------------
\* what aiosqlite raises when the database file is locked by another writer
StoreError == "database is locked"

\* build writes the artifact (output_path.write_text) and the store raises
\* in the get_context_file / create_context_file / update_context_file that
\* follows: the exception leaves build, the file stays as written, no record
\* and no fetch history is written
BuildStoreFails ==
  /\ now < MaxBuilds
  /\ \E items \in LifecycleOffers :
     \E existing_content \in {ExistingContent(context_files, files, Ticket)} :
     \E new_items \in {FilterExisting(items, IF existing_content # NoFile
                                             THEN ParseExistingUrls(existing_content) ELSE {})} :
     \E reaches_dedup \in {items # <<>> /\ ~(new_items = <<>> /\ Truthy(existing_content))} :
     \E kw \in (IF items # <<>> /\ GetContextFile(context_files, Ticket) = {}
                THEN KeywordAnswers ELSE {[AiFailed EXCEPT !.ok = TRUE]}) :
     \E dd \in (IF reaches_dedup /\ DedupAsksAi(new_items)
                THEN DedupAnswers(Len(UrlPass(new_items, {})))
                ELSE {[AiFailed EXCEPT !.ok = TRUE]}) :
     \E deduped \in {DeduplicateItems(new_items, dd)} :
     \E gr \in (IF reaches_dedup /\ GroupAsksAi(deduped)
                THEN GroupAnswers(Len(deduped))
                ELSE {AiFailed}) :
     \E r \in {BuildResult(files, context_files, Ticket, items, kw, dd, gr)} :
       /\ r.out = "written"
       /\ now' = now + 1
       /\ files' = WriteText(files, r.filename, r.markdown)
       /\ call' = [n |-> now + 1, ticket_id |-> Ticket, items |-> items, out |-> "raised",
                   error |-> StoreError, filename |-> r.filename, kept |-> r.kept,
                   grouped |-> r.grouped,
                   fresh |-> GetContextFile(context_files, Ticket) = {},
                   had_content |-> Truthy(existing_content),
                   dedup_failed |-> ~dd.ok]
  /\ UNCHANGED <<context_files, fetch_history>>
  /\ UNCHANGED searchVars
  /\ UNCHANGED raceVars

StoreFailureNext == Build \/ BuildStoreFails

StoreFailureSpec == BuilderInit /\ [][StoreFailureNext]_vars

\* the artifacts of the ticket in the output directory
ArtifactsOf(ticket_id) == {f \in DOMAIN files : f.ticket = ticket_id}

\* C40: whatever builds failed in the store after writing, the output
\* directory holds at most one artifact of the ticket, and after a build
\* that returned every artifact of the ticket is named by the ticket's
\* ContextFileRecord.
C40_OneArtifactDespiteFailures ==
  /\ Cardinality(ArtifactsOf(Ticket)) <= 1
  /\ call.out \in {"written", "noop"}
       => \A f \in ArtifactsOf(Ticket) :
            \E r \in GetContextFile(context_files, Ticket) : r.filename = f

====
